---- MODULE Spec2Model ----
\* Model of the plugin subsystem of flux-app-generator (package plugins):
\* BasePlugin.Validate / GenerateFile, ImageUpdatePlugin.GenerateFile and the
\* plugin Registry.
EXTENDS Integers, Sequences, FiniteSets, TLC

VARIABLES
    variables,   \* BasePlugin.variables: the schema of the plugin under validation
    values,      \* the caller's values map (map[string]interface{})
    result,      \* what the last Validate call returned ("none" before any call)
    plugin,      \* the plugin GenerateFile is called on
    fs,          \* the output tree: directories and files with their contents
    genResult,   \* what the last GenerateFile call returned
    namespace,   \* the namespace argument of GenerateFile
    calls,       \* number of GenerateFile calls made with the current arguments
    fsFirst,     \* the output tree as the first of these calls left it
    plugins,     \* Registry.plugins: the map from plugin name to plugin
    last,        \* the last Registry call: its arguments, what it returned and
                 \* the registry it found
    fault,       \* the operating-system failure the next GenerateFile call meets
    kubeClient,  \* the KubeLister a plugin or service holds (nil when there is none)
    configure,   \* ExternalSecretPlugin.ConfigureWithAutoComplete: where the call is
    cache,       \* AutoCompleteService.cache
    now,         \* the clock time.Now() and time.Since() read
    suggest,     \* the last GetSuggestions call: its arguments and what it returned
    pluginRegistry,   \* package variable pluginRegistry of the command
    pluginInstances,  \* package variable pluginInstances of the command
    menu,        \* runInteractivePluginMenu: where the call is
    config,      \* the types.AppConfig handed to GenerateFluxStructure
    flux,        \* GenerateFluxStructure: where the call is and what it did so far
    collect      \* the last CollectCustomConfig call and what it returned

validateVars == <<variables, result>>
genVars == <<plugin, fs, genResult, namespace, calls, fsFirst>>
registryVars == <<plugins, last>>
configureVars == <<kubeClient, configure>>
suggestVars == <<cache, now, suggest>>
menuVars == <<pluginRegistry, pluginInstances, menu>>
fluxVars == <<config, flux, collect>>
vars == <<variables, values, result, plugin, fs, genResult, namespace, calls, fsFirst,
          plugins, last, fault, kubeClient, configure, cache, now, suggest,
          pluginRegistry, pluginInstances, menu, config, flux, collect>>

-----------------------------------------------------------------------------
\* Bounds

\* Largest number of variables a plugin schema declares.
MaxVars == 2

\* Largest number of GenerateFile calls made with the same arguments.
MaxCalls == 2

\* Number of plugin names, besides the built-in ones, offered to Register.
MaxCustom == 2

\* Largest number of records in a JSON array field.
MaxRecords == 2

\* Number of times the clock advances.
MaxTicks == 3

\* Largest number of configured plugin instances.
MaxInstances == 2

-----------------------------------------------------------------------------
\* Dynamic values (interface{}): a Go value is its dynamic type and its value.
\* Two interface values are == exactly when both agree.

\* A string value is the text it holds, a sequence of atoms (words and "\n").
Nil == [t |-> "nil", v |-> << >>]
Str(s) == [t |-> "string", v |-> s]
Bool(b) == [t |-> "bool", v |-> b]

\* The values a caller submits in this model: null, two strings (one is the
\* Value of an option, the other the Label of an option) and a boolean.
Submitted == {Nil, Str(<<"value1">>), Str(<<"Option 1">>), Bool(<<"true">>)}

VariableTypeText == "text"
VariableTypeBool == "bool"
VariableTypeSelect == "select"
VariableTypeCheckbox == "checkbox"
VariableType == {VariableTypeText, VariableTypeBool, VariableTypeSelect, VariableTypeCheckbox}

\* Option{Label, Value}
Option(label, value) == [Label |-> label, Value |-> value]

\* The option list of the select variables of this model: a string and a
\* boolean value.
OptionLists ==
    { << Option("Option 1", Str(<<"value1">>)), Option("Option 2", Bool(<<"true">>)) >> }

\* Variable names, in declaration order; the name after the last declared one
\* is never declared by any schema (an unknown key).
NamePool == <<"n1", "n2", "n3", "n4", "n5">>
Keys == {NamePool[i] : i \in 1..(MaxVars + 1)}

\* Variable{Name, Type, Required, Options}
Variable(name) ==
    { [Name |-> name, Type |-> ty, Required |-> rq, Options |-> op] :
        ty \in VariableType \ {VariableTypeSelect}, rq \in BOOLEAN, op \in {<< >>} }
    \cup
    { [Name |-> name, Type |-> VariableTypeSelect, Required |-> rq, Options |-> op] :
        rq \in BOOLEAN, op \in OptionLists }

\* Schemas: 1..MaxVars variables with unique names.
Schemas ==
    UNION { { s \in [1..k -> UNION {Variable(NamePool[i]) : i \in 1..k}] :
                \A i \in 1..k : s[i].Name = NamePool[i] } : k \in 1..MaxVars }

\* map[string]interface{}: a function on the keys that are present.
ValueMaps == UNION { [D -> Submitted] : D \in SUBSET Keys }

-----------------------------------------------------------------------------
\* Errors

Ok == [ok |-> TRUE, kind |-> "", Variable |-> "", Message |-> ""]
ValidationError(variable, message) ==
    [ok |-> FALSE, kind |-> "ValidationError", Variable |-> variable, Message |-> message]

-----------------------------------------------------------------------------
\* BasePlugin.validateVariableType

\* a comparison that also accepts the display text of an option
OptionFoundByLabel(options, value) ==
    \E j \in 1..Len(options) :
        options[j].Value = value \/ Str(<<options[j].Label>>) = value

\* the loop over variable.Options of the select case
OptionFound(options, value) ==
    \E j \in 1..Len(options) : options[j].Value = value

\* a type switch whose boolean case forgets the checkbox type
validateVariableTypeNoCheckbox(variable, value) ==
    CASE variable.Type = VariableTypeBool ->
            IF value.t # "bool"
            THEN ValidationError(variable.Name, "value must be a boolean")
            ELSE Ok
      [] variable.Type = VariableTypeText ->
            IF value.t # "string"
            THEN ValidationError(variable.Name, "value must be a string")
            ELSE Ok
      [] variable.Type = VariableTypeSelect ->
            IF ~OptionFound(variable.Options, value)
            THEN ValidationError(variable.Name, "value is not one of the allowed options")
            ELSE Ok
      [] OTHER -> Ok

validateVariableType(variable, value) ==
    CASE variable.Type \in {VariableTypeBool, VariableTypeCheckbox} ->
            IF value.t # "bool"
            THEN ValidationError(variable.Name, "value must be a boolean")
            ELSE Ok
      [] variable.Type = VariableTypeText ->
            IF value.t # "string"
            THEN ValidationError(variable.Name, "value must be a string")
            ELSE Ok
      [] variable.Type = VariableTypeSelect ->
            IF ~OptionFound(variable.Options, value)
            THEN ValidationError(variable.Name, "value is not one of the allowed options")
            ELSE Ok
      [] OTHER -> Ok

\* an iteration that only type-checks and never asks for a required variable
ValidateVariableNoRequired(variable, vals) ==
    IF variable.Name \in DOMAIN vals /\ vals[variable.Name] # Nil
    THEN validateVariableType(variable, vals[variable.Name])
    ELSE Ok

\* One iteration of the loop of BasePlugin.Validate: the error the variable
\* produces, or Ok when the loop goes on.
ValidateVariable(variable, vals) ==
    IF variable.Required /\ variable.Name \notin DOMAIN vals
    THEN ValidationError(variable.Name, "required variable is missing")
    ELSE IF variable.Name \in DOMAIN vals /\ vals[variable.Name] # Nil
         THEN validateVariableType(variable, vals[variable.Name])
         ELSE Ok

\* BasePlugin.Validate: the loop from variable i on, returning the first error.
RECURSIVE ValidateFrom(_, _, _)
ValidateFrom(schema, vals, i) ==
    IF i > Len(schema)
    THEN Ok
    ELSE LET err == ValidateVariable(schema[i], vals)
         IN IF ~err.ok THEN err ELSE ValidateFrom(schema, vals, i + 1)

\* a validation that refuses keys the schema does not declare
ValidateStrict(schema, vals) ==
    IF \E k \in DOMAIN vals : \A i \in 1..Len(schema) : schema[i].Name # k
    THEN ValidationError("", "unknown variable")
    ELSE ValidateFrom(schema, vals, 1)

Validate(schema, vals) == ValidateFrom(schema, vals, 1)

-----------------------------------------------------------------------------
\* Validation: a caller builds a values map, then calls Validate on it.

None == [ok |-> FALSE, kind |-> "none", Variable |-> "", Message |-> ""]

\* values[k] = v
MapSet(m, k, v) == [x \in DOMAIN m \cup {k} |-> IF x = k THEN v ELSE m[x]]

\* the caller puts one entry into the values map
SetValue ==
    /\ result = None
    /\ \E k \in Keys, v \in Submitted : values' = MapSet(values, k, v)
    /\ UNCHANGED <<fluxVars, fault, configureVars, suggestVars, menuVars, validateVars, genVars, registryVars>>

\* err := plugin.Validate(values)
CallValidate ==
    /\ result = None
    /\ result' = Validate(variables, values)
    /\ UNCHANGED <<fluxVars, fault, configureVars, suggestVars, menuVars, variables, values, genVars, registryVars>>

-----------------------------------------------------------------------------
\* Texts, paths and the output tree

NL == "\n"

\* filepath.Join(appDir, rel): the separator is an atom of its own
Join(dir, rel) == dir \o <<"/">> \o rel

LastSlash(path) ==
    LET S == {i \in 1..Len(path) : path[i] = "/"}
    IN IF S = {} THEN 0 ELSE CHOOSE i \in S : \A j \in S : j <= i

\* filepath.Dir(path)
Dir(path) == IF LastSlash(path) = 0 THEN << >> ELSE SubSeq(path, 1, LastSlash(path) - 1)

\* dir and its ancestors
Ancestors(dir) ==
    {dir} \cup {SubSeq(dir, 1, i - 1) : i \in {j \in 1..Len(dir) : dir[j] = "/"}}

\* os.MkdirAll fails when a file is in the way
CanMkdirAll(tree, dir) == Ancestors(dir) \cap DOMAIN tree.files = {}

\* os.MkdirAll(dir): dir and every missing ancestor
MkdirAll(tree, dir) == [tree EXCEPT !.dirs = @ \cup Ancestors(dir)]

\* os.Create fails when the parent directory is missing or the path is a directory
CanCreate(tree, path) == Dir(path) \in tree.dirs /\ path \notin tree.dirs

\* a create that opens an existing file without truncating it
CreateNoTrunc(tree, path) ==
    IF path \in DOMAIN tree.files THEN tree
    ELSE [tree EXCEPT !.files = MapSet(@, path, << >>)]

\* os.Create(path): the file exists afterwards and is empty (O_TRUNC)
Create(tree, path) == [tree EXCEPT !.files = MapSet(@, path, << >>)]

\* a write to the open file appends at the file offset
Write(tree, path, text) == [tree EXCEPT !.files[path] = @ \o text]

-----------------------------------------------------------------------------
\* text/template, for the templates of a BasePlugin: literal text and {{.field}}

Lit(atom) == [n |-> "text", a |-> atom]
Field(name) == [n |-> "field", a |-> name]
\* an action that is never closed: Parse fails on it
Unclosed == [n |-> "unclosed", a |-> "{{.missing_brace"]

\* template.Parse fails
Malformed(tmpl) == \E i \in 1..Len(tmpl) : tmpl[i].n = "unclosed"

\* what Execute prints for a value
PrintValue(value) == IF value = Nil THEN <<"<no value>">> ELSE value.v

\* {{.name}} on a map: the entry, or <no value> when the key is missing
EvalField(data, name) ==
    IF name \in DOMAIN data THEN PrintValue(data[name]) ELSE <<"<no value>">>

RECURSIVE ExecuteFrom(_, _, _)
ExecuteFrom(tmpl, data, i) ==
    IF i > Len(tmpl) THEN << >>
    ELSE (IF tmpl[i].n = "field" THEN EvalField(data, tmpl[i].a) ELSE <<tmpl[i].a>>)
         \o ExecuteFrom(tmpl, data, i + 1)

\* tmpl.Execute(w, data)
Execute(tmpl, data) == ExecuteFrom(tmpl, data, 1)

-----------------------------------------------------------------------------
\* BasePlugin.GenerateFile

\* the operating system lets every operation succeed
NoFault == [op |-> "none", n |-> 0]

GenOk == [ok |-> TRUE, kind |-> "", Plugin |-> "", What |-> "", Path |-> << >>]
TemplateError(name, type) ==
    [ok |-> FALSE, kind |-> "TemplateError", Plugin |-> name, What |-> type, Path |-> << >>]
FileError(name, operation, path) ==
    [ok |-> FALSE, kind |-> "FileError", Plugin |-> name, What |-> operation, Path |-> path]
\* fmt.Errorf
PlainError(what) ==
    [ok |-> FALSE, kind |-> "error", Plugin |-> "", What |-> what, Path |-> << >>]

\* a context that keeps the Namespace entry the caller supplied
TemplateDataCallerFirst(vals, ns) ==
    IF "Namespace" \in DOMAIN vals THEN vals ELSE MapSet(vals, "Namespace", Str(ns))

\* templateData: a copy of values with Namespace set
TemplateData(vals, ns) == MapSet(vals, "Namespace", Str(ns))

\* a context that is the caller's map itself, not a copy of it
CallerValuesShared(vals, ns) == MapSet(vals, "Namespace", Str(ns))

\* the caller's map after GenerateFile: templateData is a map of its own, made
\* with make and filled by the loop over values, so the writes to it do not
\* reach the map the caller passed
CallerValues(vals, ns) == vals

\* GenerateFile returns the error and leaves the tree as out.
Outcome(err, tree) == [err |-> err, fs |-> tree]

\* GenerateFile on an operating system that fails the operation os names:
\* "mkdir" fails os.MkdirAll, "create" fails os.Create, and "write" fails the
\* write that follows os.n writes to the file (Execute writes the output of one
\* template element after the other, then comes the newline).
GenerateFileUnder(os, p, vals, appDir, ns, tree) ==
    LET templateData == TemplateData(vals, ns)
        outputPath == Join(appDir, Execute(p.filePath, templateData))
        withDir == MkdirAll(tree, Dir(outputPath))
        created == Create(withDir, outputPath)
        partial == Write(created, outputPath,
                         Execute(SubSeq(p.template, 1, os.n), templateData))
        executed == Write(created, outputPath, Execute(p.template, templateData))
    IN IF Malformed(p.filePath) THEN Outcome(TemplateError(p.name, "filepath"), tree)
       ELSE IF os.op = "mkdir" \/ ~CanMkdirAll(tree, Dir(outputPath))
            THEN Outcome(FileError(p.name, "create_directory", Dir(outputPath)), tree)
       ELSE IF Malformed(p.template) THEN Outcome(TemplateError(p.name, "yaml"), withDir)
       ELSE IF os.op = "create" \/ ~CanCreate(withDir, outputPath)
            THEN Outcome(FileError(p.name, "create_file", outputPath), withDir)
       ELSE IF os.op = "write" /\ os.n < Len(p.template)
            THEN Outcome(TemplateError(p.name, "yaml"), partial)
       ELSE IF os.op = "write"
            THEN Outcome(FileError(p.name, "write_newline", outputPath), executed)
       ELSE Outcome(GenOk, Write(executed, outputPath, <<NL>>))

\* GenerateFile when the operating system fails nothing of its own accord
GenerateFile(p, vals, appDir, ns, tree) ==
    GenerateFileUnder(NoFault, p, vals, appDir, ns, tree)

-----------------------------------------------------------------------------
\* encoding/json, for the two array fields of the image update plugin.
\* A JSON text is a sequence of tokens; an object token stands for the JSON
\* object JsonObject gives, a map from its keys to their string values.

JsonObject ==
    [ r1 |-> [name |-> <<"zigbee2mqtt">>, image |-> <<"koenkk/zigbee2mqtt">>,
              interval |-> <<"60m">>],
      r2 |-> [name |-> <<"app-daemon">>, image |-> <<"harbor.example.com/apps/app-daemon">>,
              interval |-> <<"1m">>, secretRef |-> <<"harbor-docker-creds">>],
      r3 |-> [name |-> <<"web">>, image |-> <<"ghcr.io/web">>, interval |-> <<"1m", NL>>],
      p1 |-> [name |-> <<"zigbee2mqtt">>, repository |-> <<"zigbee2mqtt">>,
              policyType |-> <<"semver">>, range |-> <<"*">>],
      p2 |-> [name |-> <<"app-daemon">>, repository |-> <<"app-daemon">>,
              policyType |-> <<"numerical">>,
              pattern |-> <<"^main-[a-f0-9]+-(?P<ts>[0-9]+)">>, extract |-> <<"$ts">>,
              order |-> <<"asc">>],
      \* records that leave fields out
      r4 |-> [image |-> <<"nginx">>, interval |-> <<"1m">>],
      r5 |-> [name |-> <<"test">>],
      r6 |-> [name |-> <<"test">>, image |-> <<"nginx">>],
      p3 |-> [name |-> <<"test">>, repository |-> <<"test">>, policyType |-> <<"semver">>],
      p4 |-> [name |-> <<"test">>, repository |-> <<"test">>, policyType |-> <<"numerical">>,
              extract |-> <<"$ts">>],
      p5 |-> [name |-> <<"test">>, repository |-> <<"test">>, policyType |-> <<"numerical">>,
              pattern |-> <<"^main-">>],
      p6 |-> [name |-> <<"test">>, repository |-> <<"test">>, policyType |-> <<"numerical">>,
              pattern |-> <<"^main-">>, extract |-> <<"$ts">>],
      p7 |-> [name |-> <<"test">>, repository |-> <<"test">>, policyType |-> <<"timestamp">>],
      p8 |-> [name |-> <<"test">>, repository |-> <<"test">>, policyType |-> <<"calver">>],
      p9 |-> [name |-> <<"test">>],
      \* records the configuration forms of the plugin produce
      c1 |-> [name |-> <<"zigbee2mqtt">>, image |-> <<"koenkk/zigbee2mqtt">>,
              interval |-> <<"6h">>],
      c2 |-> [name |-> <<"zigbee2mqtt">>, image |-> <<"koenkk/zigbee2mqtt">>,
              interval |-> <<"6h">>, secretRef |-> <<"harbor-docker-creds">>],
      c3 |-> [name |-> <<"zigbee2mqtt">>, image |-> <<"koenkk/zigbee2mqtt">>,
              interval |-> <<"60m">>, secretRef |-> <<"harbor-docker-creds">>],
      c4 |-> [name |-> <<"zigbee2mqtt">>, repository |-> <<"zigbee2mqtt">>,
              policyType |-> <<"semver">>, range |-> <<"^1.0.0">>],
      c5 |-> [name |-> <<"zigbee2mqtt">>, repository |-> <<"zigbee2mqtt">>,
              policyType |-> <<"semver">>, range |-> <<"~1.2.0">>],
      c6 |-> [name |-> <<"zigbee2mqtt">>, repository |-> <<"zigbee2mqtt">>,
              policyType |-> <<"numerical">>,
              pattern |-> <<"^main-[a-f0-9]+-(?P<ts>[0-9]+)">>, extract |-> <<"$ts">>,
              order |-> <<"asc">>],
      c7 |-> [name |-> <<"zigbee2mqtt">>, repository |-> <<"zigbee2mqtt">>,
              policyType |-> <<"timestamp">>,
              pattern |-> <<"^main-[a-f0-9]+-(?P<ts>[0-9]+)">>, extract |-> <<"$ts">>,
              order |-> <<"asc">>],
      \* a numerical policy that also carries a range
      pb |-> [name |-> <<"both">>, repository |-> <<"test">>, policyType |-> <<"numerical">>,
              range |-> <<"1.x">>, pattern |-> <<"^main-">>, extract |-> <<"$ts">>,
              order |-> <<"asc">>] ]

ObjectTokens == DOMAIN JsonObject

\* the string field of a struct: the object's entry for its json key, else ""
JsonString(obj, key) == IF key \in DOMAIN obj THEN obj[key] ELSE << >>

ImageRepository(obj) ==
    [Name |-> JsonString(obj, "name"), Image |-> JsonString(obj, "image"),
     Interval |-> JsonString(obj, "interval"), SecretRef |-> JsonString(obj, "secretRef")]

ImagePolicy(obj) ==
    [Name |-> JsonString(obj, "name"), Repository |-> JsonString(obj, "repository"),
     PolicyType |-> JsonString(obj, "policyType"), Range |-> JsonString(obj, "range"),
     Pattern |-> JsonString(obj, "pattern"), Extract |-> JsonString(obj, "extract"),
     Order |-> JsonString(obj, "order")]

\* the text is a JSON array of objects: [ obj , obj ... ]
IsJsonArray(text) ==
    /\ Len(text) >= 2
    /\ text[1] = "[" /\ text[Len(text)] = "]"
    /\ Len(text) = 2 \/ Len(text) % 2 = 1
    /\ \A i \in 2..(Len(text) - 1) :
          IF i % 2 = 0 THEN text[i] \in ObjectTokens ELSE text[i] = ","

\* json.Unmarshal into a slice succeeds on an array of objects and on null
CanUnmarshal(text) == IsJsonArray(text) \/ text = <<"null">>

\* the objects of the decoded array, in order (null decodes to a nil slice)
JsonElements(text) ==
    IF text = <<"null">> THEN << >>
    ELSE [i \in 1..((Len(text) - 1) \div 2) |-> JsonObject[text[2 * i]]]

UnmarshalRepositories(text) ==
    [i \in 1..Len(JsonElements(text)) |-> ImageRepository(JsonElements(text)[i])]

UnmarshalPolicies(text) ==
    [i \in 1..Len(JsonElements(text)) |-> ImagePolicy(JsonElements(text)[i])]

\* values[key] exists and is a string
IsStringField(vals, key) == key \in DOMAIN vals /\ vals[key].t = "string"

-----------------------------------------------------------------------------
\* ImageUpdatePlugin.GenerateFile: the three templates

PolicyTypeSemver == <<"semver">>
PolicyTypeNumerical == <<"numerical">>

\* one iteration of {{- range .ImageRepositories }}
RepositoryBlock(r) ==
    <<NL, "---", NL, "apiVersion: image.toolkit.fluxcd.io/v1beta2", NL,
      "kind: ImageRepository", NL, "metadata:", NL, "  name: ">> \o r.Name
    \o <<NL, "spec:", NL, "  image: ">> \o r.Image
    \o <<NL, "  interval: ">> \o r.Interval
    \o (IF r.SecretRef # << >>
        THEN <<NL, "  secretRef:", NL, "    name: ">> \o r.SecretRef
        ELSE << >>)

\* a block whose sections follow the fields the record fills in
PolicyBlockByFields(q) ==
    <<NL, "---", NL, "apiVersion: image.toolkit.fluxcd.io/v1beta2", NL,
      "kind: ImagePolicy", NL, "metadata:", NL, "  name: ">> \o q.Name
    \o <<NL, "spec:", NL, "  imageRepositoryRef:", NL, "    name: ">> \o q.Repository
    \o (IF q.Range # << >>
        THEN <<NL, "  policy:", NL, "    semver:", NL, "      range: '">> \o q.Range \o <<"'">>
        ELSE << >>)
    \o (IF q.Pattern # << >>
        THEN <<NL, "  filterTags:", NL, "    pattern: '">> \o q.Pattern
             \o <<"'", NL, "    extract: '">> \o q.Extract
             \o <<"'", NL, "  policy:", NL, "    numerical:", NL, "      order: ">> \o q.Order
        ELSE << >>)

\* one iteration of {{- range .ImagePolicies }}
PolicyBlock(q) ==
    <<NL, "---", NL, "apiVersion: image.toolkit.fluxcd.io/v1beta2", NL,
      "kind: ImagePolicy", NL, "metadata:", NL, "  name: ">> \o q.Name
    \o <<NL, "spec:", NL, "  imageRepositoryRef:", NL, "    name: ">> \o q.Repository
    \o (IF q.PolicyType = PolicyTypeSemver
        THEN <<NL, "  policy:", NL, "    semver:", NL, "      range: '">> \o q.Range \o <<"'">>
        ELSE IF q.PolicyType = PolicyTypeNumerical
        THEN <<NL, "  filterTags:", NL, "    pattern: '">> \o q.Pattern
             \o <<"'", NL, "    extract: '">> \o q.Extract
             \o <<"'", NL, "  policy:", NL, "    numerical:", NL, "      order: ">> \o q.Order
        ELSE << >>)

RECURSIVE RangeRepositories(_, _)
RangeRepositories(repos, i) ==
    IF i > Len(repos) THEN << >>
    ELSE RepositoryBlock(repos[i]) \o RangeRepositories(repos, i + 1)

RECURSIVE RangePolicies(_, _)
RangePolicies(policies, i) ==
    IF i > Len(policies) THEN << >>
    ELSE PolicyBlock(policies[i]) \o RangePolicies(policies, i + 1)

AutomationTemplate(data) ==
    <<"---", NL, "apiVersion: image.toolkit.fluxcd.io/v1beta1", NL,
      "kind: ImageUpdateAutomation", NL, "metadata:", NL, "  name: ">>
    \o EvalField(data, "automation_name")
    \o <<NL, "  namespace: ">> \o EvalField(data, "Namespace")
    \o <<NL, "spec:", NL, "  interval: ">> \o EvalField(data, "automation_interval")
    \o <<NL, "  sourceRef:", NL, "    kind: GitRepository", NL, "    name: ">>
    \o EvalField(data, "git_repository_name")
    \o <<NL, "    namespace: ">> \o EvalField(data, "git_repository_namespace")
    \o <<NL, "  git:", NL, "    commit:", NL, "      author:", NL, "        email: ">>
    \o EvalField(data, "author_email")
    \o <<NL, "        name: ">> \o EvalField(data, "author_name")
    \o <<NL, "      messageTemplate: \"">> \o EvalField(data, "commit_message_template")
    \o <<"\"", NL, "    push:", NL, "      branch: ">> \o EvalField(data, "git_branch")
    \o <<NL, "  update:", NL, "    path: ">> \o EvalField(data, "update_path")
    \o <<NL, "    strategy: ">> \o EvalField(data, "update_strategy")

ImageFileNames == {"image-repository.yaml", "image-policy.yaml", "image-update-automation.yaml"}

\* what the template of a file renders to
ImageFile(filename, data, repos, policies) ==
    CASE filename = "image-repository.yaml" -> RangeRepositories(repos, 1)
      [] filename = "image-policy.yaml" -> RangePolicies(policies, 1)
      [] OTHER -> AutomationTemplate(data)

\* ImageUpdatePlugin.generateSingleFile
generateSingleFile(rendered, outputPath, tree) ==
    IF ~CanCreate(tree, outputPath)
    THEN Outcome(PlainError("failed to create"), tree)
    ELSE Outcome(GenOk, Write(Write(Create(tree, outputPath), outputPath, rendered),
                              outputPath, <<NL>>))

\* the loop over the files map, in the order the iteration visits it
RECURSIVE GenerateFiles(_, _, _, _, _, _, _)
GenerateFiles(order, i, appDir, data, repos, policies, tree) ==
    IF i > Len(order) THEN Outcome(GenOk, tree)
    ELSE LET one == generateSingleFile(ImageFile(order[i], data, repos, policies),
                                       Join(appDir, <<order[i]>>), tree)
         IN IF ~one.err.ok THEN Outcome(PlainError("failed to generate"), one.fs)
            ELSE GenerateFiles(order, i + 1, appDir, data, repos, policies, one.fs)

\* a generation that decodes the policies only once the other files are written
ImageUpdateGenerateFileLateDecode(vals, appDir, ns, order, tree) ==
    LET repoIsString == IsStringField(vals, "image_repositories")
        policyIsString == IsStringField(vals, "image_policies")
        imageRepositories ==
            IF repoIsString THEN UnmarshalRepositories(vals["image_repositories"].v) ELSE << >>
        imagePolicies ==
            IF policyIsString THEN UnmarshalPolicies(vals["image_policies"].v) ELSE << >>
    IN IF repoIsString /\ ~CanUnmarshal(vals["image_repositories"].v)
       THEN Outcome(PlainError("failed to parse image repositories"), tree)
       ELSE IF policyIsString /\ ~CanUnmarshal(vals["image_policies"].v)
       THEN Outcome(PlainError("failed to parse image policies"),
                    GenerateFiles(order, 1, appDir, TemplateData(vals, ns),
                                  imageRepositories, << >>, tree).fs)
       ELSE GenerateFiles(order, 1, appDir, TemplateData(vals, ns),
                          imageRepositories, imagePolicies, tree)

ImageUpdateGenerateFile(vals, appDir, ns, order, tree) ==
    LET repoIsString == IsStringField(vals, "image_repositories")
        policyIsString == IsStringField(vals, "image_policies")
        imageRepositories ==
            IF repoIsString THEN UnmarshalRepositories(vals["image_repositories"].v) ELSE << >>
        imagePolicies ==
            IF policyIsString THEN UnmarshalPolicies(vals["image_policies"].v) ELSE << >>
    IN IF repoIsString /\ ~CanUnmarshal(vals["image_repositories"].v)
       THEN Outcome(PlainError("failed to parse image repositories"), tree)
       ELSE IF policyIsString /\ ~CanUnmarshal(vals["image_policies"].v)
       THEN Outcome(PlainError("failed to parse image policies"), tree)
       ELSE GenerateFiles(order, 1, appDir, TemplateData(vals, ns),
                          imageRepositories, imagePolicies, tree)

-----------------------------------------------------------------------------
\* ImageUpdatePlugin.Validate

\* json.Marshal of a list of records: the array text of their tokens
Marshal(elems) ==
    IF Len(elems) = 0 THEN <<"[", "]">>
    ELSE [i \in 1..(2 * Len(elems) + 1) |->
            IF i = 1 THEN "["
            ELSE IF i = 2 * Len(elems) + 1 THEN "]"
            ELSE IF i % 2 = 0 THEN elems[i \div 2] ELSE ","]

\* the error json.Unmarshal returns for a text that is not an array of objects
SyntaxError ==
    [ok |-> FALSE, kind |-> "SyntaxError", Variable |-> "", Message |-> "invalid character"]

\* err.Error(), as fmt's %v prints an error
ErrorText(err) ==
    IF err.kind = "ValidationError"
    THEN "validation error for variable '" \o err.Variable \o "': " \o err.Message
    ELSE err.Message

\* index is the position the range loop gives the record, counted from 0
validateSingleRepository(repo, index) ==
    IF repo.Name = << >>
    THEN ValidationError("image_repositories",
                         "repository " \o ToString(index) \o ": name is required")
    ELSE IF repo.Image = << >>
    THEN ValidationError("image_repositories",
                         "repository " \o ToString(index) \o ": image is required")
    ELSE IF repo.Interval = << >>
    THEN ValidationError("image_repositories",
                         "repository " \o ToString(index) \o ": interval is required")
    ELSE Ok

validateSemverPolicy(policy, index) ==
    IF policy.Range = << >>
    THEN ValidationError("image_policies",
                         "policy " \o ToString(index) \o ": range is required for semver policy")
    ELSE Ok

\* a check of the numerical fields that never looks at extract
validateNumericalPolicyNoExtract(policy, index) ==
    IF policy.Pattern = << >>
    THEN ValidationError("image_policies",
             "policy " \o ToString(index) \o ": pattern is required for numerical policy")
    ELSE IF policy.Order = << >>
    THEN ValidationError("image_policies",
             "policy " \o ToString(index) \o ": order is required for numerical policy")
    ELSE Ok

validateNumericalPolicy(policy, index) ==
    IF policy.Pattern = << >>
    THEN ValidationError("image_policies",
             "policy " \o ToString(index) \o ": pattern is required for numerical policy")
    ELSE IF policy.Extract = << >>
    THEN ValidationError("image_policies",
             "policy " \o ToString(index) \o ": extract is required for numerical policy")
    ELSE IF policy.Order = << >>
    THEN ValidationError("image_policies",
             "policy " \o ToString(index) \o ": order is required for numerical policy")
    ELSE Ok

\* the switch has the two cases only; every other policy type falls through
validatePolicyTypeSpecificFields(policy, index) ==
    CASE policy.PolicyType = PolicyTypeSemver -> validateSemverPolicy(policy, index)
      [] policy.PolicyType = PolicyTypeNumerical -> validateNumericalPolicy(policy, index)
      [] OTHER -> Ok

validateSinglePolicy(policy, index) ==
    IF policy.Name = << >>
    THEN ValidationError("image_policies",
                         "policy " \o ToString(index) \o ": name is required")
    ELSE IF policy.Repository = << >>
    THEN ValidationError("image_policies",
                         "policy " \o ToString(index) \o ": repository is required")
    ELSE IF policy.PolicyType = << >>
    THEN ValidationError("image_policies",
                         "policy " \o ToString(index) \o ": policyType is required")
    ELSE validatePolicyTypeSpecificFields(policy, index)

\* for i, repo := range repos: the first error, or Ok
RECURSIVE ValidateRepositoriesFrom(_, _)
ValidateRepositoriesFrom(repos, i) ==
    IF i > Len(repos) THEN Ok
    ELSE LET err == validateSingleRepository(repos[i], i - 1)
         IN IF ~err.ok THEN err ELSE ValidateRepositoriesFrom(repos, i + 1)

RECURSIVE ValidatePoliciesFrom(_, _)
ValidatePoliciesFrom(policies, i) ==
    IF i > Len(policies) THEN Ok
    ELSE LET err == validateSinglePolicy(policies[i], i - 1)
         IN IF ~err.ok THEN err ELSE ValidatePoliciesFrom(policies, i + 1)

\* the validator closure of validateImageRepositories
RepositoriesValidator(data) ==
    IF ~CanUnmarshal(data) THEN SyntaxError
    ELSE ValidateRepositoriesFrom(UnmarshalRepositories(data), 1)

\* the validator closure of validateImagePolicies
PoliciesValidator(data) ==
    IF ~CanUnmarshal(data) THEN SyntaxError
    ELSE ValidatePoliciesFrom(UnmarshalPolicies(data), 1)

\* a validator that accepts whatever text it is given
ValidatorAcceptAll(fieldName, data) == Ok

\* the func(string) error argument of validateJSONField, named by its field
Validator(fieldName, data) ==
    IF fieldName = "image_repositories" THEN RepositoriesValidator(data)
    ELSE PoliciesValidator(data)

\* whatever error the validator returns is wrapped the same way
validateJSONField(vals, fieldName) ==
    IF fieldName \notin DOMAIN vals THEN Ok
    ELSE IF vals[fieldName].t # "string" THEN Ok
    ELSE LET err == Validator(fieldName, vals[fieldName].v)
         IN IF ~err.ok
            THEN ValidationError(fieldName, "invalid JSON format: " \o ErrorText(err))
            ELSE Ok

validateImageRepositories(vals) ==
    validateJSONField(vals, "image_repositories")

validateImagePolicies(vals) ==
    validateJSONField(vals, "image_policies")

\* ImageUpdatePlugin.Validate
ImageUpdateValidate(schema, vals) ==
    IF ~Validate(schema, vals).ok THEN Validate(schema, vals)
    ELSE IF ~validateImageRepositories(vals).ok THEN validateImageRepositories(vals)
    ELSE validateImagePolicies(vals)

\* NewImageUpdatePlugin's variables
ImageUpdateVariables ==
    << [Name |-> "automation_name", Type |-> VariableTypeText, Required |-> TRUE,
        Options |-> << >>] >>

-----------------------------------------------------------------------------
\* Registry

\* A plugin value is a pointer to a plugin object: id tells the objects apart,
\* name is what Name() returns.  NilPlugin is the nil interface value.
NilPlugin == [id |-> 0, name |-> "<nil>"]
PluginObject(id, name) == [id |-> id, name |-> name]

\* NewExternalSecretPlugin(): a new object named "externalsecret"
NewExternalSecretPlugin == PluginObject(1, "externalsecret")

NoError == ""
RegistryOutcome(err, reg) == [err |-> err, plugins |-> reg]

\* a registration that never looks for an existing plugin of the same name
RegisterOverwrite(reg, p) ==
    IF p = NilPlugin THEN RegistryOutcome("cannot register nil plugin", reg)
    ELSE IF p.name = "" THEN RegistryOutcome("plugin name cannot be empty", reg)
    ELSE RegistryOutcome(NoError, MapSet(reg, p.name, p))

\* a registration that reports success without storing the plugin
RegisterNoInsert(reg, p) ==
    IF p = NilPlugin THEN RegistryOutcome("cannot register nil plugin", reg)
    ELSE IF p.name = "" THEN RegistryOutcome("plugin name cannot be empty", reg)
    ELSE IF p.name \in DOMAIN reg
         THEN RegistryOutcome("plugin with name is already registered", reg)
    ELSE RegistryOutcome(NoError, reg)

\* Registry.Register
Register(reg, p) ==
    IF p = NilPlugin THEN RegistryOutcome("cannot register nil plugin", reg)
    ELSE IF p.name = "" THEN RegistryOutcome("plugin name cannot be empty", reg)
    ELSE IF p.name \in DOMAIN reg
         THEN RegistryOutcome("plugin with name is already registered", reg)
    ELSE RegistryOutcome(NoError, MapSet(reg, p.name, p))

\* Registry.registerBuiltinPlugins: a failing Register would panic
registerBuiltinPlugins(reg) == Register(reg, NewExternalSecretPlugin).plugins

\* NewRegistry
NewRegistry == registerBuiltinPlugins(<< >>)

\* a lookup that falls back to the built-in plugin
GetOrDefault(reg, name) ==
    IF name \in DOMAIN reg THEN [plugin |-> reg[name], exists |-> TRUE]
    ELSE [plugin |-> NewExternalSecretPlugin, exists |-> FALSE]

\* Registry.Get: a missing key yields the zero value, nil
Get(reg, name) ==
    IF name \in DOMAIN reg THEN [plugin |-> reg[name], exists |-> TRUE]
    ELSE [plugin |-> NilPlugin, exists |-> FALSE]

\* Registry.Count
Count(reg) == Cardinality(DOMAIN reg)

\* Registry.Exists
Exists(reg, name) == name \in DOMAIN reg

\* the orders in which a range over the map may visit its keys
KeyOrders(reg) ==
    {o \in [1..Count(reg) -> DOMAIN reg] : \A i, j \in 1..Count(reg) : o[i] = o[j] => i = j}

\* Registry.List, the map being visited in the given order
List(reg, order) == [i \in 1..Len(order) |-> reg[order[i]]]

\* Registry.GetNames, the map being visited in the given order
GetNames(reg, order) == order

-----------------------------------------------------------------------------
\* Registry runs: calls on a registry returned by NewRegistry

CustomNamePool == <<"test-plugin", "test-plugin-2", "count-test-1", "count-test-2">>
CustomNames == {CustomNamePool[i] : i \in 1..MaxCustom}
RegisteredNames == {"externalsecret", "imageupdate"} \cup CustomNames

\* what callers hand to Register: nil, and two objects for each name
Registrable ==
    {NilPlugin} \cup {PluginObject(id, n) : id \in 2..3, n \in RegisteredNames \cup {""}}

\* what callers look up
LookedUp == RegisteredNames \cup {"non-existent"}

Call(op) ==
    [op |-> op, plugin |-> NilPlugin, name |-> "", err |-> NoError, exists |-> FALSE,
     list |-> << >>, names |-> << >>, count |-> 0, before |-> plugins]

CallRegister ==
    \E p \in Registrable :
        /\ plugins' = Register(plugins, p).plugins
        /\ last' = [Call("Register") EXCEPT !.plugin = p, !.err = Register(plugins, p).err]
        /\ UNCHANGED <<fluxVars, fault, configureVars, suggestVars, menuVars, validateVars, values, genVars>>

CallGet ==
    \E n \in LookedUp :
        /\ last' = [Call("Get") EXCEPT !.name = n, !.plugin = Get(plugins, n).plugin,
                                       !.exists = Get(plugins, n).exists]
        /\ UNCHANGED <<fluxVars, fault, configureVars, suggestVars, menuVars, validateVars, values, genVars, plugins>>

CallExists ==
    \E n \in LookedUp :
        /\ last' = [Call("Exists") EXCEPT !.name = n, !.exists = Exists(plugins, n)]
        /\ UNCHANGED <<fluxVars, fault, configureVars, suggestVars, menuVars, validateVars, values, genVars, plugins>>

CallCount ==
    /\ last' = [Call("Count") EXCEPT !.count = Count(plugins)]
    /\ UNCHANGED <<fluxVars, fault, configureVars, suggestVars, menuVars, validateVars, values, genVars, plugins>>

CallList ==
    \E order \in KeyOrders(plugins) :
        /\ last' = [Call("List") EXCEPT !.list = List(plugins, order)]
        /\ UNCHANGED <<fluxVars, fault, configureVars, suggestVars, menuVars, validateVars, values, genVars, plugins>>

CallGetNames ==
    \E order \in KeyOrders(plugins) :
        /\ last' = [Call("GetNames") EXCEPT !.names = GetNames(plugins, order)]
        /\ UNCHANGED <<fluxVars, fault, configureVars, suggestVars, menuVars, validateVars, values, genVars, plugins>>

NoCall ==
    [op |-> "NewRegistry", plugin |-> NilPlugin, name |-> "", err |-> NoError,
     exists |-> FALSE, list |-> << >>, names |-> << >>, count |-> 0, before |-> << >>]

RegistryIdle ==
    /\ plugins = NewRegistry
    /\ last = NoCall

-----------------------------------------------------------------------------
\* The other parts of the program at rest: no failure pending, no lister, no
\* call under way.

FaultIdle == fault = NoFault

\* what a lister call answers: an error, or the names it found
Answer(err, names) == [err |-> err, names |-> names]

\* the nil KubeLister
NilLister == [nil |-> TRUE, cluster |-> Answer(FALSE, << >>), namespaced |-> << >>]

\* ConfigureWithAutoComplete has not been called
NotConfiguring ==
    [step |-> "idle", namespace |-> << >>, secretStoreType |-> "", field |-> "none",
     options |-> << >>, err |-> "", values |-> << >>]

ConfigureIdle ==
    /\ kubeClient = NilLister
    /\ configure = NotConfiguring

\* GetSuggestions has not been called
NoSuggestion ==
    [called |-> FALSE, resourceType |-> "", namespace |-> << >>, query |-> "",
     items |-> << >>, err |-> "", panic |-> FALSE, listed |-> FALSE, fetched |-> << >>]

SuggestIdle ==
    /\ cache = << >>
    /\ now = 0
    /\ suggest = NoSuggestion

\* GenerateFluxStructure has not been called, on no configuration
NoConfig == [AppName |-> << >>, Namespace |-> << >>, Plugins |-> << >>, PluginFiles |-> << >>]
NotRunning == [pc |-> "idle", i |-> 0, pluginFiles |-> << >>, err |-> GenOk, events |-> << >>]

\* CollectCustomConfig has not been called
NotCollected == [called |-> FALSE, err |-> "", before |-> << >>, answers |-> << >>]

FluxIdle ==
    /\ config = NoConfig
    /\ flux = NotRunning
    /\ collect = NotCollected

\* runInteractivePluginMenu has not been called
MenuClosed == [state |-> "idle", options |-> << >>, choice |-> << >>, err |-> ""]

MenuIdle ==
    /\ pluginRegistry = [nil |-> FALSE, plugins |-> NewRegistry]
    /\ pluginInstances = << >>
    /\ menu = MenuClosed

-----------------------------------------------------------------------------
\* Generation: a caller builds a values map, then calls GenerateFile on it,
\* possibly more than once with the same arguments.

AppDir == <<"out">>

\* the plugins of the generation runs: BasePlugins over a few templates, and
\* the image update plugin (NewImageUpdatePlugin)
BodyTemplates ==
    { <<Lit("name: "), Field("name")>>,
      <<Lit("name: "), Field("name"), Lit(NL)>>,
      <<Lit("invalid template "), Unclosed>> }

PathTemplates ==
    { <<Lit("test.yaml")>>,
      <<Lit("dependencies"), Lit("/"), Lit("external-secret-"), Field("name"), Lit(".yaml")>>,
      <<Lit("test-files"), Lit("/"), Unclosed>> }

BasePlugin(template, filePath) ==
    [impl |-> "base", name |-> "test-plugin", template |-> template, filePath |-> filePath]

NewImageUpdatePlugin ==
    [impl |-> "imageupdate", name |-> "imageupdate", template |-> << >>,
     filePath |-> <<Lit("image-update-automation.yaml")>>]

\* The ExternalSecret plugin: a BasePlugin with six variables

ExternalSecretVariables ==
    << [Name |-> "name", Type |-> VariableTypeText, Required |-> TRUE, Options |-> << >>],
       [Name |-> "secret_store_type", Type |-> VariableTypeSelect, Required |-> TRUE,
        Options |-> << Option("Cluster Secret Store", Str(<<"ClusterSecretStore">>)),
                       Option("Secret Store", Str(<<"SecretStore">>)) >>],
       [Name |-> "secret_store_name", Type |-> VariableTypeText, Required |-> TRUE,
        Options |-> << >>],
       [Name |-> "secret_key", Type |-> VariableTypeText, Required |-> TRUE,
        Options |-> << >>],
       [Name |-> "target_secret_name", Type |-> VariableTypeText, Required |-> TRUE,
        Options |-> << >>],
       [Name |-> "refresh_interval", Type |-> VariableTypeSelect, Required |-> FALSE,
        Options |-> << Option("15 minutes", Str(<<"15m">>)), Option("30 minutes", Str(<<"30m">>)),
                       Option("1 hour", Str(<<"60m">>)), Option("2 hours", Str(<<"120m">>)),
                       Option("6 hours", Str(<<"6h">>)), Option("12 hours", Str(<<"12h">>)),
                       Option("24 hours", Str(<<"24h">>)) >>] >>

ExternalSecretTemplate ==
    << Lit("apiVersion: external-secrets.io/v1beta1"), Lit(NL),
       Lit("kind: ExternalSecret"), Lit(NL), Lit("metadata:"), Lit(NL),
       Lit("  name: "), Field("name"), Lit(NL),
       Lit("  namespace: "), Field("Namespace"), Lit(NL),
       Lit("spec:"), Lit(NL), Lit("  secretStoreRef:"), Lit(NL),
       Lit("    kind: "), Field("secret_store_type"), Lit(NL),
       Lit("    name: "), Field("secret_store_name"), Lit(NL),
       Lit("  dataFrom:"), Lit(NL), Lit("    - extract:"), Lit(NL),
       Lit("        key: "), Field("secret_key"), Lit(NL),
       Lit("  refreshInterval: "), Field("refresh_interval"), Lit(NL),
       Lit("  target:"), Lit(NL), Lit("    creationPolicy: Owner"), Lit(NL),
       Lit("    name: "), Field("target_secret_name") >>

\* a path that names the file after the resource, not after the target secret
ExternalSecretFilePathByName ==
    << Lit("dependencies"), Lit("/"), Lit("external-secret-"), Field("name"), Lit(".yaml") >>

ExternalSecretFilePath ==
    << Lit("dependencies"), Lit("/"), Lit("external-secret-"), Field("target_secret_name"),
       Lit(".yaml") >>

\* the BasePlugin NewExternalSecretPlugin builds
ExternalSecretPlugin ==
    [impl |-> "base", name |-> "externalsecret", template |-> ExternalSecretTemplate,
     filePath |-> ExternalSecretFilePath]

GenPlugins ==
    {BasePlugin(t, f) : t \in BodyTemplates, f \in PathTemplates} \cup {NewImageUpdatePlugin}

\* the output tree before the run: nothing, an empty output directory, or an
\* output directory holding files of an earlier run
OldText == <<"old", NL, NL>>
InitialTrees ==
    { [dirs |-> {}, files |-> << >>],
      [dirs |-> {AppDir}, files |-> << >>],
      [dirs |-> {AppDir},
       files |-> [q \in {Join(AppDir, <<"test.yaml">>), Join(AppDir, <<"image-policy.yaml">>)}
                    |-> OldText]] }

Namespaces == {<<"monitoring">>, <<"default">>}

\* the entries a caller puts into the values map of a generation run
GenKeys == {"name", "update_strategy", "image_repositories", "image_policies"}
GenValues(k) ==
    CASE k = "name" -> {Str(<<"api">>), Str(<<"api", NL>>), Bool(<<"true">>)}
      [] k = "update_strategy" -> {Str(<<"Setters">>), Str(<<"Setters", NL>>)}
      [] k = "image_repositories" ->
            {Str(<<"[", "]">>), Str(<<"[", "r1", "]">>), Str(<<"[", "r2", ",", "r3", "]">>),
             Str(<<"r1">>), Bool(<<"true">>)}
      [] k = "image_policies" ->
            {Str(<<"[", "]">>), Str(<<"[", "p1", ",", "p2", "]">>), Str(<<"[", "p1">>)}

GenNone == [ok |-> FALSE, kind |-> "none", Plugin |-> "", What |-> "", Path |-> << >>]

InitGenerate ==
    /\ variables = << >>
    /\ values = << >>
    /\ result = None
    /\ plugin \in GenPlugins
    /\ fs \in InitialTrees
    /\ genResult = GenNone
    /\ namespace \in Namespaces
    /\ calls = 0
    /\ fsFirst = fs
    /\ RegistryIdle
    /\ FluxIdle
    /\ FaultIdle /\ ConfigureIdle /\ SuggestIdle /\ MenuIdle

\* the caller puts one entry into the values map
SetGenValue ==
    /\ calls = 0
    /\ \E k \in GenKeys : \E v \in GenValues(k) : values' = MapSet(values, k, v)
    /\ UNCHANGED <<fluxVars, fault, configureVars, suggestVars, menuVars, validateVars, genVars, registryVars>>

\* what a GenerateFile call leaves behind
Called(out) ==
    /\ fs' = out.fs
    /\ genResult' = out.err
    /\ calls' = calls + 1
    /\ fsFirst' = IF calls = 0 THEN out.fs ELSE fsFirst
    /\ values' = CallerValues(values, namespace)
    /\ UNCHANGED <<fluxVars, fault, configureVars, suggestVars, menuVars, validateVars, plugin, namespace, registryVars>>

\* err := plugin.GenerateFile(values, appDir, namespace) on a BasePlugin
CallGenerateFile ==
    /\ plugin.impl = "base"
    /\ calls < MaxCalls
    /\ Called(GenerateFile(plugin, values, AppDir, namespace, fs))

\* the orders in which a range over the files map may visit its three keys
FileOrders ==
    {o \in [1..3 -> ImageFileNames] : \A i, j \in 1..3 : o[i] = o[j] => i = j}

\* err := plugin.GenerateFile(values, appDir, namespace) on the ImageUpdatePlugin
CallImageUpdateGenerateFile ==
    /\ plugin.impl = "imageupdate"
    /\ calls < MaxCalls
    /\ \E order \in FileOrders :
          Called(ImageUpdateGenerateFile(values, AppDir, namespace, order, fs))

NextGenerate == SetGenValue \/ CallGenerateFile \/ CallImageUpdateGenerateFile

SpecGenerate == InitGenerate /\ [][NextGenerate]_vars

-----------------------------------------------------------------------------
\* Validation runs

InitValidate ==
    /\ variables \in Schemas
    /\ values = << >>
    /\ result = None
    /\ plugin = NewImageUpdatePlugin
    /\ fs = [dirs |-> {}, files |-> << >>]
    /\ genResult = GenNone
    /\ namespace = <<"default">>
    /\ calls = 0
    /\ fsFirst = fs
    /\ RegistryIdle
    /\ FluxIdle
    /\ FaultIdle /\ ConfigureIdle /\ SuggestIdle /\ MenuIdle

NextValidate == SetValue \/ CallValidate

SpecValidate == InitValidate /\ [][NextValidate]_vars

InitRegistry ==
    /\ variables = << >>
    /\ values = << >>
    /\ result = None
    /\ plugin = NewImageUpdatePlugin
    /\ fs = [dirs |-> {}, files |-> << >>]
    /\ genResult = GenNone
    /\ namespace = <<"default">>
    /\ calls = 0
    /\ fsFirst = fs
    /\ RegistryIdle
    /\ FluxIdle
    /\ FaultIdle /\ ConfigureIdle /\ SuggestIdle /\ MenuIdle

NextRegistry ==
    CallRegister \/ CallGet \/ CallExists \/ CallCount \/ CallList \/ CallGetNames

SpecRegistry == InitRegistry /\ [][NextRegistry]_vars

-----------------------------------------------------------------------------
\* Validation runs of the image update plugin: a caller holds a values map and
\* calls Validate on it.

\* the lists of at most n record tokens
Lists(tokens, n) == UNION {[1..k -> tokens] : k \in 0..n}

RepositoryTokens == {"r1", "r4", "r5", "r6"}
PolicyTokens == {"p1", "p2", "p3", "p4", "p5", "p6", "p7", "p8", "p9"}

\* what a caller stores under a JSON field: the marshalled text of a list of
\* records, a text that is no JSON array, or a value that is no string
JsonFieldValues(tokens) ==
    {Str(Marshal(l)) : l \in Lists(tokens, MaxRecords)}
    \cup {Str(<<"r1">>), Str(<<"[", "p1">>), Bool(<<"true">>)}

\* a key the caller leaves out of the map
Absent == [t |-> "absent", v |-> << >>]

\* the map holding the three entries, without those left out
ImageValues(name, repositories, policies) ==
    LET entry == [automation_name |-> name, image_repositories |-> repositories,
                  image_policies |-> policies]
    IN [k \in {x \in DOMAIN entry : entry[x] # Absent} |-> entry[k]]

InitImageValidate ==
    /\ variables = ImageUpdateVariables
    /\ \E name \in {Absent, Str(<<"home-automation">>), Bool(<<"true">>)},
          repositories \in {Absent} \cup JsonFieldValues(RepositoryTokens),
          policies \in {Absent} \cup JsonFieldValues(PolicyTokens) :
            values = ImageValues(name, repositories, policies)
    /\ result = None
    /\ plugin = NewImageUpdatePlugin
    /\ fs = [dirs |-> {}, files |-> << >>]
    /\ genResult = GenNone
    /\ namespace = <<"default">>
    /\ calls = 0
    /\ fsFirst = fs
    /\ RegistryIdle
    /\ FluxIdle
    /\ FaultIdle /\ ConfigureIdle /\ SuggestIdle /\ MenuIdle

\* err := plugin.Validate(values) on the ImageUpdatePlugin
CallImageValidate ==
    /\ result = None
    /\ result' = ImageUpdateValidate(variables, values)
    /\ UNCHANGED <<fluxVars, fault, configureVars, suggestVars, menuVars, variables, values, genVars, registryVars>>

NextImageValidate == CallImageValidate

SpecImageValidate == InitImageValidate /\ [][NextImageValidate]_vars

-----------------------------------------------------------------------------
\* Runs of the image update plugin: a caller holds a values map, validates it
\* and generates the files from it.

GeneratedRepositoryTokens == {"r1", "r2"}
GeneratedPolicyTokens == {"p1", "p8", "pb"}

InitImageUpdate ==
    /\ variables = ImageUpdateVariables
    /\ \E name \in {Absent, Str(<<"home-automation">>)},
          repositories \in {Absent} \cup
              {Str(Marshal(l)) : l \in Lists(GeneratedRepositoryTokens, MaxRecords)},
          policies \in {Str(Marshal(l)) : l \in Lists(GeneratedPolicyTokens, MaxRecords)} :
            values = ImageValues(name, repositories, policies)
    /\ result = None
    /\ plugin = NewImageUpdatePlugin
    /\ fs \in InitialTrees
    /\ genResult = GenNone
    /\ namespace \in Namespaces
    /\ calls = 0
    /\ fsFirst = fs
    /\ RegistryIdle
    /\ FluxIdle
    /\ FaultIdle /\ ConfigureIdle /\ SuggestIdle /\ MenuIdle

NextImageUpdate == CallImageValidate \/ CallImageUpdateGenerateFile

SpecImageUpdate == InitImageUpdate /\ [][NextImageUpdate]_vars

-----------------------------------------------------------------------------
\* Runs of the ExternalSecret plugin: a caller holds a values map, validates it
\* and generates the file from it.

\* the map holding the entries that are not left out
SecretValues(entry) == [k \in {x \in DOMAIN entry : entry[x] # Absent} |-> entry[k]]

InitExternalSecret ==
    /\ variables = ExternalSecretVariables
    /\ \E name \in {Absent, Str(<<"my-external-secret">>)},
          type \in {Str(<<"ClusterSecretStore">>), Str(<<"SecretStore">>), Str(<<"Vault">>)},
          store \in {Str(<<"vault-backend">>), Nil},
          key \in {Str(<<"my-secret-key">>), Bool(<<"true">>)},
          target \in {Absent, Str(<<"my-secret">>), Str(<<"db-secret">>)},
          interval \in {Absent, Str(<<"15m">>), Str(<<"60m">>)},
          ns \in {Absent, Str(<<"kube-system">>)} :
            values = SecretValues([name |-> name, secret_store_type |-> type,
                                   secret_store_name |-> store, secret_key |-> key,
                                   target_secret_name |-> target,
                                   refresh_interval |-> interval, Namespace |-> ns])
    /\ result = None
    /\ plugin = ExternalSecretPlugin
    /\ fs \in InitialTrees
    /\ genResult = GenNone
    /\ namespace \in Namespaces
    /\ calls = 0
    /\ fsFirst = fs
    /\ RegistryIdle
    /\ FluxIdle
    /\ FaultIdle /\ ConfigureIdle /\ SuggestIdle /\ MenuIdle

NextExternalSecret == CallValidate \/ CallGenerateFile

SpecExternalSecret == InitExternalSecret /\ [][NextExternalSecret]_vars

-----------------------------------------------------------------------------
\* Generation on an operating system that may fail: a call of GenerateFile
\* whose directory creation, file creation or writes fail, on trees where a file
\* or a directory may be in the way.

\* the output root is a file; the output file's path is a directory
BlockedTrees ==
    { [dirs |-> {}, files |-> [q \in {AppDir} |-> OldText]],
      [dirs |-> {AppDir, Join(AppDir, <<"test.yaml">>)}, files |-> << >>] }

\* the failures the operating system may hold for a call on plugin p
Faults(p) ==
    {NoFault, [op |-> "mkdir", n |-> 0], [op |-> "create", n |-> 0]}
    \cup {[op |-> "write", n |-> k] : k \in 0..Len(p.template)}

InitFaults ==
    /\ variables = << >>
    /\ values \in {<< >>, [k \in {"name"} |-> Str(<<"api">>)]}
    /\ result = None
    /\ plugin \in {BasePlugin(t, f) : t \in BodyTemplates, f \in PathTemplates}
    /\ fs \in InitialTrees \cup BlockedTrees
    /\ genResult = GenNone
    /\ namespace = <<"default">>
    /\ calls = 0
    /\ fsFirst = fs
    /\ fault \in Faults(plugin)
    /\ RegistryIdle
    /\ FluxIdle
    /\ ConfigureIdle /\ SuggestIdle /\ MenuIdle

\* err := plugin.GenerateFile(values, appDir, namespace) while the failure lasts
CallGenerateFileUnder ==
    /\ calls < MaxCalls
    /\ Called(GenerateFileUnder(fault, plugin, values, AppDir, namespace, fs))

\* the failure passes
Recover ==
    /\ fault # NoFault
    /\ fault' = NoFault
    /\ UNCHANGED <<fluxVars, validateVars, values, genVars, registryVars, configureVars, suggestVars,
                   menuVars>>

NextFaults == CallGenerateFileUnder \/ Recover

SpecFaults == InitFaults /\ [][NextFaults]_vars

-----------------------------------------------------------------------------
\* KubeLister: what the cluster answers to the two secret-store listings

Lister(cluster, namespaced) == [nil |-> FALSE, cluster |-> cluster, namespaced |-> namespaced]

ClusterStores == <<"vault-backend", "aws-secrets-manager">>
NamespacedStores == <<"local-vault">>

\* a call fails (with or without names), finds nothing, or finds stores
Answers(names) ==
    {Answer(TRUE, << >>), Answer(TRUE, names), Answer(FALSE, << >>), Answer(FALSE, names)}

Listers ==
    {Lister(c, n) : c \in Answers(ClusterStores),
                    n \in [Namespaces -> Answers(NamespacedStores)]}

GetClusterSecretStores(client) == client.cluster
GetSecretStores(client, ns) == client.namespaced[ns]

-----------------------------------------------------------------------------
\* ExternalSecretPlugin.ConfigureWithAutoComplete

\* the field of a form: free text, or a selection among options
TextInput == [kind |-> "text", options |-> << >>]
Select(options) == [kind |-> "select", options |-> options]

\* a choice of field that offers whatever list a successful call returned
StoreNameInputOnSuccess(client, secretStoreType, ns) ==
    IF secretStoreType = "ClusterSecretStore"
    THEN IF ~client.nil
         THEN IF GetClusterSecretStores(client).err THEN TextInput
              ELSE Select(GetClusterSecretStores(client).names)
         ELSE TextInput
    ELSE IF ~client.nil
         THEN IF GetSecretStores(client, ns).err THEN TextInput
              ELSE Select(GetSecretStores(client, ns).names)
         ELSE TextInput

\* Step 2: the field storeNameInput is set to
StoreNameInput(client, secretStoreType, ns) ==
    IF secretStoreType = "ClusterSecretStore"
    THEN IF ~client.nil
         THEN IF GetClusterSecretStores(client).err
                 \/ Len(GetClusterSecretStores(client).names) = 0
              THEN TextInput
              ELSE Select(GetClusterSecretStores(client).names)
         ELSE TextInput
    ELSE IF ~client.nil
         THEN IF GetSecretStores(client, ns).err \/ Len(GetSecretStores(client, ns).names) = 0
              THEN TextInput
              ELSE Select(GetSecretStores(client, ns).names)
         ELSE TextInput

\* what a form's Run returns when the user leaves it
UserAborted == "user aborted"

\* the call returns nil, err
ConfigureFailed(err) == [configure EXCEPT !.step = "returned", !.err = err]

\* the call up to storeNameForm.Run: the store type form has been answered and
\* the store name field has been built
ConfigureWithAutoComplete ==
    /\ configure.step = "idle"
    /\ \E ns \in Namespaces :
          \/ configure' = [ConfigureFailed(UserAborted) EXCEPT !.namespace = ns]
          \/ \E secretStoreType \in {"ClusterSecretStore", "SecretStore"} :
                configure' =
                    [configure EXCEPT
                        !.step = "storeNameForm",
                        !.namespace = ns,
                        !.secretStoreType = secretStoreType,
                        !.field = StoreNameInput(kubeClient, secretStoreType, ns).kind,
                        !.options = StoreNameInput(kubeClient, secretStoreType, ns).options]
    /\ UNCHANGED <<fluxVars, fault, kubeClient, suggestVars, menuVars, validateVars, values, genVars,
                   registryVars>>

\* storeNameForm.Run: the user picks an option or types a name, or leaves
StoreNameFormRun ==
    /\ configure.step = "storeNameForm"
    /\ \/ configure' = ConfigureFailed(UserAborted)
       \/ \E secretStoreName \in
              IF configure.field = "select"
              THEN {configure.options[i] : i \in 1..Len(configure.options)}
              ELSE {"my-cluster-store", ""} :
            configure' = [configure EXCEPT !.step = "secretForm",
                                           !.values = [secret_store_name |-> secretStoreName]]
    /\ UNCHANGED <<fluxVars, fault, kubeClient, suggestVars, menuVars, validateVars, values, genVars,
                   registryVars>>

\* secretForm.Run and the return of the configuration
SecretFormRun ==
    /\ configure.step = "secretForm"
    /\ \/ configure' = [ConfigureFailed(UserAborted) EXCEPT !.values = << >>]
       \/ \E refreshInterval \in {"15m", "60m"} :
            configure' =
                [configure EXCEPT
                    !.step = "returned",
                    !.values = [name |-> "my-external-secret",
                                secret_store_type |-> configure.secretStoreType,
                                secret_store_name |-> configure.values.secret_store_name,
                                secret_key |-> "my-secret-key",
                                target_secret_name |-> "my-secret",
                                refresh_interval |-> refreshInterval,
                                Namespace |-> configure.namespace]]
    /\ UNCHANGED <<fluxVars, fault, kubeClient, suggestVars, menuVars, validateVars, values, genVars,
                   registryVars>>

InitConfigure ==
    /\ variables = ExternalSecretVariables
    /\ values = << >>
    /\ result = None
    /\ plugin = ExternalSecretPlugin
    /\ fs = [dirs |-> {}, files |-> << >>]
    /\ genResult = GenNone
    /\ namespace = <<"default">>
    /\ calls = 0
    /\ fsFirst = fs
    /\ kubeClient \in {NilLister} \cup Listers
    /\ configure = NotConfiguring
    /\ RegistryIdle
    /\ FluxIdle
    /\ FaultIdle /\ SuggestIdle /\ MenuIdle

NextConfigure == ConfigureWithAutoComplete \/ StoreNameFormRun \/ SecretFormRun

SpecConfigure == InitConfigure /\ [][NextConfigure]_vars

-----------------------------------------------------------------------------
\* AutoCompleteService

ResourceTypeClusterSecretStore == "clustersecretstore"
ResourceTypeSecretStore == "secretstore"

\* seconds a cache entry stays fresh
CacheTTL == 30

\* fmt.Sprintf("%s:%s", resourceType, namespace)
CacheKey(resourceType, ns) == <<resourceType, ":">> \o ns

cacheEntry(items, timestamp) == [items |-> items, timestamp |-> timestamp]

\* strings.ToLower, on the queries of this model
ToLower(s) == IF s = "VAULT" THEN "vault" ELSE s

\* strings.Contains(item, part), on the store names of this model
StringContains(item, part) ==
    \/ part = "" \/ part = item
    \/ part = "vault" /\ item \in {"vault-backend", "local-vault"}

filterSuggestions(items, query) ==
    IF query = "" THEN items
    ELSE SelectSeq(items, LAMBDA item : StringContains(ToLower(item), ToLower(query)))

\* what a call returns
Suggestions(items, err, panic) == [items |-> items, err |-> err, panic |-> panic]

\* a method call on the nil KubeLister is a nil pointer dereference
fetchResourceItems(lister, resourceType, ns) ==
    CASE resourceType = ResourceTypeClusterSecretStore ->
            IF lister.nil THEN Suggestions(<< >>, "", TRUE)
            ELSE IF GetClusterSecretStores(lister).err
            THEN Suggestions(<< >>, "listing failed", FALSE)
            ELSE Suggestions(GetClusterSecretStores(lister).names, "", FALSE)
      [] resourceType = ResourceTypeSecretStore ->
            IF lister.nil THEN Suggestions(<< >>, "", TRUE)
            ELSE IF GetSecretStores(lister, ns).err
            THEN Suggestions(<< >>, "listing failed", FALSE)
            ELSE Suggestions(GetSecretStores(lister, ns).names, "", FALSE)
      [] OTHER -> Suggestions(<< >>, "unsupported resource type", FALSE)

\* what GetSuggestions returns, the cache it leaves, and whether it called a
\* method of the lister
Suggested(ret, c, listed) == [ret |-> ret, cache |-> c, listed |-> listed]

\* the resource types for which fetchResourceItems calls the lister
Listed(resourceType) ==
    resourceType \in {ResourceTypeClusterSecretStore, ResourceTypeSecretStore}

\* a GetSuggestions that caches what it returns, the filtered list
GetSuggestionsCachesFiltered(lister, c, t, resourceType, ns, query) ==
    LET cacheKey == CacheKey(resourceType, ns)
        fetched == fetchResourceItems(lister, resourceType, ns)
    IN IF lister.nil THEN Suggested(Suggestions(<< >>, "", FALSE), c, FALSE)
       ELSE IF cacheKey \in DOMAIN c /\ t - c[cacheKey].timestamp < CacheTTL
       THEN Suggested(Suggestions(filterSuggestions(c[cacheKey].items, query), "", FALSE),
                      c, FALSE)
       ELSE IF fetched.panic \/ fetched.err # ""
       THEN Suggested(fetched, c, Listed(resourceType))
       ELSE Suggested(Suggestions(filterSuggestions(fetched.items, query), "", FALSE),
                      MapSet(c, cacheKey,
                             cacheEntry(filterSuggestions(fetched.items, query), t)),
                      TRUE)

\* a GetSuggestions that serves an entry of any age
GetSuggestionsNeverExpires(lister, c, t, resourceType, ns, query) ==
    LET cacheKey == CacheKey(resourceType, ns)
        fetched == fetchResourceItems(lister, resourceType, ns)
    IN IF lister.nil THEN Suggested(Suggestions(<< >>, "", FALSE), c, FALSE)
       ELSE IF cacheKey \in DOMAIN c
       THEN Suggested(Suggestions(filterSuggestions(c[cacheKey].items, query), "", FALSE),
                      c, FALSE)
       ELSE IF fetched.panic \/ fetched.err # ""
       THEN Suggested(fetched, c, Listed(resourceType))
       ELSE Suggested(Suggestions(filterSuggestions(fetched.items, query), "", FALSE),
                      MapSet(c, cacheKey, cacheEntry(fetched.items, t)), TRUE)

\* a GetSuggestions that goes to the cache and the lister without looking
\* whether there is a lister
GetSuggestionsNoNilCheck(lister, c, t, resourceType, ns, query) ==
    LET cacheKey == CacheKey(resourceType, ns)
        fetched == fetchResourceItems(lister, resourceType, ns)
    IN IF cacheKey \in DOMAIN c /\ t - c[cacheKey].timestamp < CacheTTL
       THEN Suggested(Suggestions(filterSuggestions(c[cacheKey].items, query), "", FALSE),
                      c, FALSE)
       ELSE IF fetched.panic \/ fetched.err # ""
       THEN Suggested(fetched, c, Listed(resourceType))
       ELSE Suggested(Suggestions(filterSuggestions(fetched.items, query), "", FALSE),
                      MapSet(c, cacheKey, cacheEntry(fetched.items, t)), TRUE)

\* AutoCompleteService.GetSuggestions on a service with this lister and cache,
\* at time t
GetSuggestions(lister, c, t, resourceType, ns, query) ==
    LET cacheKey == CacheKey(resourceType, ns)
        fetched == fetchResourceItems(lister, resourceType, ns)
    IN IF lister.nil THEN Suggested(Suggestions(<< >>, "", FALSE), c, FALSE)
       ELSE IF cacheKey \in DOMAIN c /\ t - c[cacheKey].timestamp < CacheTTL
       THEN Suggested(Suggestions(filterSuggestions(c[cacheKey].items, query), "", FALSE),
                      c, FALSE)
       ELSE IF fetched.panic \/ fetched.err # ""
       THEN Suggested(fetched, c, Listed(resourceType))
       ELSE Suggested(Suggestions(filterSuggestions(fetched.items, query), "", FALSE),
                      MapSet(c, cacheKey, cacheEntry(fetched.items, t)), TRUE)

\* the listers of the suggestion runs: both listings fail or work, and the
\* namespaces hold stores or none
SuggestListers ==
    {Lister(c, [ns \in Namespaces |-> n]) :
        c \in {Answer(FALSE, ClusterStores), Answer(TRUE, << >>)},
        n \in {Answer(FALSE, NamespacedStores), Answer(FALSE, << >>)}}

\* NewAutoCompleteService(client)
InitSuggest ==
    /\ variables = << >>
    /\ values = << >>
    /\ result = None
    /\ plugin = ExternalSecretPlugin
    /\ fs = [dirs |-> {}, files |-> << >>]
    /\ genResult = GenNone
    /\ namespace = <<"default">>
    /\ calls = 0
    /\ fsFirst = fs
    /\ kubeClient \in {NilLister} \cup SuggestListers
    /\ configure = NotConfiguring
    /\ cache = << >>
    /\ now = 0
    /\ suggest = NoSuggestion
    /\ RegistryIdle
    /\ FluxIdle
    /\ FaultIdle /\ MenuIdle

\* the lists the lister returned since the cache was last cleared, by cache key:
\* the record of a call in which the lister was asked and answered
Fetched(before, listed, lister, resourceType, ns) ==
    IF listed /\ ~lister.nil /\ fetchResourceItems(lister, resourceType, ns).err = ""
    THEN MapSet(before, CacheKey(resourceType, ns),
                fetchResourceItems(lister, resourceType, ns).items)
    ELSE before

\* the namespace argument of a call: the cluster-scoped wrappers pass ""
CallNamespaces(resourceType) ==
    IF resourceType = ResourceTypeSecretStore THEN Namespaces ELSE {<< >>}

\* items, err := acs.GetSuggestions(ctx, resourceType, namespace, query)
CallGetSuggestions ==
    /\ ~suggest.panic
    /\ \E resourceType \in {ResourceTypeClusterSecretStore, ResourceTypeSecretStore, "ingress"} :
       \E ns \in CallNamespaces(resourceType), query \in {"", "VAULT"} :
          LET out == GetSuggestions(kubeClient, cache, now, resourceType, ns, query)
          IN /\ cache' = out.cache
             /\ suggest' = [called |-> TRUE, resourceType |-> resourceType,
                            namespace |-> ns, query |-> query, items |-> out.ret.items,
                            err |-> out.ret.err, panic |-> out.ret.panic,
                            listed |-> out.listed,
                            fetched |-> Fetched(suggest.fetched, out.listed, kubeClient,
                                                resourceType, ns)]
    /\ UNCHANGED <<fluxVars, fault, configureVars, now, menuVars, validateVars, values, genVars,
                   registryVars>>

\* AutoCompleteService.ClearCache
ClearCache ==
    /\ ~suggest.panic
    /\ cache' = << >>
    /\ suggest' = [suggest EXCEPT !.fetched = << >>]
    /\ UNCHANGED <<fluxVars, fault, configureVars, now, menuVars, validateVars, values,
                   genVars, registryVars>>

\* fifteen seconds pass
Tick ==
    /\ now < 15 * MaxTicks
    /\ now' = now + 15
    /\ UNCHANGED <<fluxVars, fault, configureVars, cache, suggest, menuVars, validateVars, values,
                   genVars, registryVars>>

\* the cluster behind the lister changes: stores come and go, listings start
\* and stop failing
ClusterChanges ==
    /\ ~kubeClient.nil
    /\ kubeClient' \in SuggestListers \ {kubeClient}
    /\ UNCHANGED <<fluxVars, fault, configure, suggestVars, menuVars, validateVars, values,
                   genVars, registryVars>>

NextSuggest == CallGetSuggestions \/ ClearCache \/ Tick \/ ClusterChanges

SpecSuggest == InitSuggest /\ [][NextSuggest]_vars

-----------------------------------------------------------------------------
\* The command's plugin menu: runInteractivePluginMenu and configurePluginInstance
\* over the package variables pluginRegistry and pluginInstances

\* pluginRegistry = nil
NilRegistry == [nil |-> TRUE, plugins |-> << >>]
RegistryAt(reg) == [nil |-> FALSE, plugins |-> reg]

PluginConfig(pluginName, vals) == [PluginName |-> pluginName, Values |-> vals]

\* plugin.Variables(): the plugins other than the built-in one declare none
Variables(p) == IF p.name = "externalsecret" THEN ExternalSecretVariables ELSE << >>

\* the value of a menu option: "add_<name>", or "done"
AddOption(name) == <<"add_", name>>
DoneOption == <<"done">>

\* the options of the menu: one per listed plugin, then done
MenuOptions(listed) == [i \in 1..Len(listed) |-> AddOption(listed[i].name)] \o <<DoneOption>>

\* what a call returns and the instance list it leaves
MenuOutcome(err, instances) == [err |-> err, instances |-> instances]

\* configurePluginInstance(pluginName) on a registry that is there; answers is
\* what configForm.Run collects, or the error it returns
\* a configurePluginInstance that keeps one instance per plugin: the new one
\* takes the place of those already configured
configurePluginInstanceOnePerPlugin(reg, instances, pluginName, answers) ==
    IF ~Get(reg, pluginName).exists
    THEN MenuOutcome("plugin '" \o pluginName \o "' not found", instances)
    ELSE IF answers = Absent /\ Len(Variables(Get(reg, pluginName).plugin)) > 0
    THEN MenuOutcome("error collecting configuration: " \o UserAborted, instances)
    ELSE MenuOutcome("", Append(SelectSeq(instances, LAMBDA c : c.PluginName # pluginName),
                                PluginConfig(pluginName, << >>)))

configurePluginInstance(reg, instances, pluginName, answers) ==
    IF ~Get(reg, pluginName).exists
    THEN MenuOutcome("plugin '" \o pluginName \o "' not found", instances)
    ELSE IF Len(Variables(Get(reg, pluginName).plugin)) = 0
    THEN MenuOutcome("", Append(instances, PluginConfig(pluginName, << >>)))
    ELSE IF answers = Absent
    THEN MenuOutcome("error collecting configuration: " \o UserAborted, instances)
    ELSE MenuOutcome("", Append(instances, PluginConfig(pluginName, answers)))

\* what the user enters into the configuration form of a plugin
FormAnswers ==
    { [k \in {"name"} |-> Str(<<"my-external-secret">>)],
      [k \in {"name", "target_secret_name"} |-> Str(<<"my-secret">>)] }

\* the menu form as the loop builds it from pluginRegistry.List()
MenuForm(order) ==
    [state |-> "form", options |-> MenuOptions(List(pluginRegistry.plugins, order)),
     choice |-> << >>, err |-> ""]

\* the next iteration of the loop, after the user chose an option
MenuFormAfter(choice, order) == [MenuForm(order) EXCEPT !.choice = choice]

\* the process died of a nil pointer dereference
Panicked == [state |-> "panicked", options |-> << >>, choice |-> << >>, err |-> ""]

\* the call up to the first pluginMenuForm.Run; pluginRegistry.List() on the
\* nil registry is a nil pointer dereference
runInteractivePluginMenu ==
    /\ menu.state \in {"idle", "returned", "called"}
    /\ IF pluginRegistry.nil
       THEN menu' = Panicked
       ELSE \E order \in KeyOrders(pluginRegistry.plugins) : menu' = MenuForm(order)
    /\ UNCHANGED <<fluxVars, fault, configureVars, suggestVars, pluginRegistry, pluginInstances,
                   validateVars, values, genVars, registryVars>>

\* pluginMenuForm.Run and the rest of the iteration: the user leaves, is done,
\* or adds an instance of a plugin, after which the menu is built again
PluginMenuFormRun ==
    /\ menu.state = "form"
    /\ \/ /\ menu' = [menu EXCEPT !.state = "returned", !.err = UserAborted]
          /\ UNCHANGED pluginInstances
       \/ \E i \in 1..Len(menu.options) :
             IF menu.options[i] = DoneOption
             THEN /\ menu' = [menu EXCEPT !.state = "returned", !.choice = DoneOption]
                  /\ UNCHANGED pluginInstances
             ELSE \E answers \in {Absent} \cup FormAnswers,
                        order \in KeyOrders(pluginRegistry.plugins) :
                        LET out == configurePluginInstance(pluginRegistry.plugins,
                                       pluginInstances, menu.options[i][2], answers)
                        IN /\ Len(out.instances) <= MaxInstances
                           /\ pluginInstances' = out.instances
                           /\ menu' = IF out.err # ""
                                      THEN [menu EXCEPT
                                              !.state = "returned",
                                              !.choice = menu.options[i],
                                              !.err = "error configuring plugin '"
                                                      \o menu.options[i][2] \o "': " \o out.err]
                                      ELSE MenuFormAfter(menu.options[i], order)
    /\ UNCHANGED <<fluxVars, fault, configureVars, suggestVars, pluginRegistry, validateVars, values,
                   genVars, registryVars>>

\* the names configurePluginInstance is called with outside the menu
PluginNames == {"externalsecret", "test-plugin", "non-existent-plugin", "invalid-plugin", ""}

\* configurePluginInstance(pluginName) called on its own; pluginRegistry.Get on
\* the nil registry is a nil pointer dereference
CallConfigurePluginInstance ==
    /\ menu.state \in {"idle", "returned", "called"}
    /\ \E pluginName \in PluginNames, answers \in {Absent} \cup FormAnswers :
          IF pluginRegistry.nil
          THEN menu' = Panicked /\ UNCHANGED pluginInstances
          ELSE LET out == configurePluginInstance(pluginRegistry.plugins, pluginInstances,
                                                  pluginName, answers)
               IN /\ Len(out.instances) <= MaxInstances
                  /\ pluginInstances' = out.instances
                  /\ menu' = [state |-> "called", options |-> << >>,
                              choice |-> <<pluginName>>, err |-> out.err]
    /\ UNCHANGED <<fluxVars, fault, configureVars, suggestVars, pluginRegistry, validateVars, values,
                   genVars, registryVars>>

\* the registries the command may hold: none, the one NewRegistry returns, and
\* one with a further plugin registered
MenuRegistries ==
    {NilRegistry, RegistryAt(NewRegistry),
     RegistryAt(Register(NewRegistry, PluginObject(2, "test-plugin")).plugins)}

InitMenu ==
    /\ variables = << >>
    /\ values = << >>
    /\ result = None
    /\ plugin = ExternalSecretPlugin
    /\ fs = [dirs |-> {}, files |-> << >>]
    /\ genResult = GenNone
    /\ namespace = <<"default">>
    /\ calls = 0
    /\ fsFirst = fs
    /\ pluginRegistry \in MenuRegistries
    /\ pluginInstances \in
          {<< >>} \cup {<<PluginConfig("externalsecret", a)>> : a \in FormAnswers}
    /\ menu = MenuClosed
    /\ RegistryIdle
    /\ FluxIdle
    /\ FaultIdle /\ ConfigureIdle /\ SuggestIdle

NextMenu == runInteractivePluginMenu \/ PluginMenuFormRun \/ CallConfigurePluginInstance

SpecMenu == InitMenu /\ [][NextMenu]_vars

-----------------------------------------------------------------------------
\* The generator: GenerateFluxStructure and generatePluginFiles over a
\* types.AppConfig.  The registry generatePluginFiles builds is the variable
\* plugins; the output tree is fs.

\* NewRegistry(kubeClient), the constructor generatePluginFiles calls, with
\* every built-in plugin registered
NewListerRegistry == Register(NewRegistry, PluginObject(2, "imageupdate")).plugins

\* generateFromTemplateString, on the text the template renders to
generateFromTemplateString(rendered, outputPath, tree) ==
    IF ~CanCreate(tree, outputPath)
    THEN Outcome(PlainError("failed to create"), tree)
    ELSE Outcome(GenOk, Write(Write(Create(tree, outputPath), outputPath, rendered),
                              outputPath, <<NL>>))

\* generateHelmValues, for a configuration without raw YAML
generateHelmValues(outputPath, tree) ==
    IF ~CanCreate(tree, outputPath)
    THEN Outcome(PlainError("failed to write"), tree)
    ELSE Outcome(GenOk, Write(Create(tree, outputPath), outputPath, <<NL>>))

\* GenerateFluxStructure up to its call of generatePluginFiles: the
\* directories, then the three Helm files
GenerateBaseFiles(cfg, tree) ==
    LET appDir == cfg.AppName
        dependencies == Join(appDir, <<"dependencies">>)
        release == Join(appDir, <<"release">>)
        t1 == MkdirAll(tree, appDir)
        t2 == MkdirAll(t1, dependencies)
        t3 == MkdirAll(t2, release)
        repository == generateFromTemplateString(<<"kind: HelmRepository">>,
                          Join(dependencies, <<"helm-repository.yaml">>), t3)
        helmRelease == generateFromTemplateString(<<"kind: HelmRelease">>,
                          Join(release, <<"helm-release.yaml">>), repository.fs)
    IN IF ~CanMkdirAll(tree, appDir)
       THEN Outcome(PlainError("failed to create app directory"), tree)
       ELSE IF ~CanMkdirAll(t1, dependencies)
       THEN Outcome(PlainError("failed to create directory"), t1)
       ELSE IF ~CanMkdirAll(t2, release)
       THEN Outcome(PlainError("failed to create directory"), t2)
       ELSE IF ~repository.err.ok THEN repository
       ELSE IF ~helmRelease.err.ok THEN helmRelease
       ELSE generateHelmValues(Join(release, <<"helm-values.yaml">>), helmRelease.fs)

\* the resource list of the Kustomization template: one line per plugin file
RECURSIVE RangePluginFiles(_, _)
RangePluginFiles(files, i) ==
    IF i > Len(files) THEN << >>
    ELSE <<NL, "  - ">> \o files[i] \o RangePluginFiles(files, i + 1)

\* what KustomizationTemplate renders to on the configuration it is handed
KustomizationTemplate(cfg) ==
    <<"kind: Kustomization", NL, "resources:">> \o RangePluginFiles(cfg.PluginFiles, 1)

\* the plugin a registry entry points to
PluginOf(p) == IF p.name = "imageupdate" THEN NewImageUpdatePlugin ELSE ExternalSecretPlugin

\* plugin.Validate(values), by the dynamic type of the plugin
PluginValidate(p, vals) ==
    IF p.name = "imageupdate" THEN ImageUpdateValidate(ImageUpdateVariables, vals)
    ELSE Validate(ExternalSecretVariables, vals)

\* plugin.GenerateFile(values, appDir, namespace), by the dynamic type
PluginGenerateFile(p, vals, appDir, ns, order, tree) ==
    IF p.name = "imageupdate" THEN ImageUpdateGenerateFile(vals, appDir, ns, order, tree)
    ELSE GenerateFile(PluginOf(p), vals, appDir, ns, tree)

\* fmt.Errorf("... plugin '%s' ...", pluginConfig.PluginName)
PluginFailure(what, name) == [PlainError(what) EXCEPT !.Plugin = name]

\* a list that names the file path of the plugin only, as for any other plugin
imageUpdateFilesOneToOne == << <<"image-update-automation.yaml">> >>

\* the three files of an imageupdate instance
imageUpdateFiles ==
    << <<"image-repository.yaml">>, <<"image-policy.yaml">>, <<"image-update-automation.yaml">> >>

\* what one iteration of the loop does: its error, the tree it leaves, the
\* entries it appends to pluginFiles and the calls it makes on the plugin
Iteration(err, tree, files, made) == [err |-> err, fs |-> tree, files |-> files, calls |-> made]

\* an iteration that leaves out an instance Validate rejects and goes on
generatePluginFileSkipInvalid(reg, pluginConfig, appDir, ns, order, tree) ==
    LET name == pluginConfig.PluginName
        vals == pluginConfig.Values
        p == Get(reg, name).plugin
        out == PluginGenerateFile(p, vals, appDir, ns, order, tree)
        filePath == Execute(PluginOf(p).filePath, TemplateData(vals, ns))
    IN IF ~Get(reg, name).exists
       THEN Iteration(PluginFailure("not found in registry", name), tree, << >>, <<"Get">>)
       ELSE IF ~PluginValidate(p, vals).ok
       THEN Iteration(GenOk, tree, << >>, <<"Get", "Validate">>)
       ELSE IF ~out.err.ok
            THEN Iteration(PluginFailure("failed to generate file", name), out.fs, << >>,
                           <<"Get", "Validate", "GenerateFile">>)
            ELSE Iteration(GenOk, out.fs,
                           IF name = "imageupdate" THEN imageUpdateFiles ELSE <<filePath>>,
                           <<"Get", "Validate", "GenerateFile">>)

\* an iteration that generates the file of an instance whatever Validate says
generatePluginFileUnchecked(reg, pluginConfig, appDir, ns, order, tree) ==
    LET name == pluginConfig.PluginName
        vals == pluginConfig.Values
        p == Get(reg, name).plugin
        out == PluginGenerateFile(p, vals, appDir, ns, order, tree)
        filePath == Execute(PluginOf(p).filePath, TemplateData(vals, ns))
    IN IF ~Get(reg, name).exists
       THEN Iteration(PluginFailure("not found in registry", name), tree, << >>, <<"Get">>)
       ELSE IF name = "imageupdate"
       THEN IF ~out.err.ok
            THEN Iteration(PluginFailure("failed to generate file", name), out.fs, << >>,
                           <<"Get", "Validate", "GenerateFile">>)
            ELSE Iteration(GenOk, out.fs, imageUpdateFiles,
                           <<"Get", "Validate", "GenerateFile">>)
       ELSE IF ~out.err.ok
            THEN Iteration(PluginFailure("failed to generate file", name), out.fs,
                           <<filePath>>, <<"Get", "Validate", "GenerateFile">>)
            ELSE Iteration(GenOk, out.fs, <<filePath>>, <<"Get", "Validate", "GenerateFile">>)

\* the body of the loop of generatePluginFiles for one pluginConfig
generatePluginFile(reg, pluginConfig, appDir, ns, order, tree) ==
    LET name == pluginConfig.PluginName
        vals == pluginConfig.Values
        p == Get(reg, name).plugin
        out == PluginGenerateFile(p, vals, appDir, ns, order, tree)
        filePath == Execute(PluginOf(p).filePath, TemplateData(vals, ns))
    IN IF ~Get(reg, name).exists
       THEN Iteration(PluginFailure("not found in registry", name), tree, << >>, <<"Get">>)
       ELSE IF ~PluginValidate(p, vals).ok
       THEN Iteration(PluginFailure("validation failed", name), tree, << >>,
                      <<"Get", "Validate">>)
       ELSE IF name = "imageupdate"
       THEN IF ~out.err.ok
            THEN Iteration(PluginFailure("failed to generate file", name), out.fs, << >>,
                           <<"Get", "Validate", "GenerateFile">>)
            ELSE Iteration(GenOk, out.fs, imageUpdateFiles,
                           <<"Get", "Validate", "GenerateFile">>)
       ELSE IF Malformed(PluginOf(p).filePath)
       THEN Iteration(PluginFailure("failed to parse file path template", name), tree,
                      << >>, <<"Get", "Validate", "Parse">>)
       ELSE IF ~out.err.ok
            THEN Iteration(PluginFailure("failed to generate file", name), out.fs,
                           <<filePath>>, <<"Get", "Validate", "GenerateFile">>)
            ELSE Iteration(GenOk, out.fs, <<filePath>>, <<"Get", "Validate", "GenerateFile">>)

\* the calls of an iteration, each with the index of the instance it is for and
\* whether it succeeded: an iteration ends at the first call that fails
Events(made, i, err) ==
    [k \in 1..Len(made) |-> [op |-> made[k], i |-> i, ok |-> k < Len(made) \/ err.ok]]

\* GenerateFluxStructure from its start to the loop of generatePluginFiles,
\* which an empty plugin list skips
GenerateFluxStructure ==
    /\ flux.pc = "idle"
    /\ LET out == GenerateBaseFiles(config, fs)
       IN /\ fs' = out.fs
          /\ IF ~out.err.ok
             THEN /\ flux' = [flux EXCEPT !.pc = "returned", !.err = out.err]
                  /\ UNCHANGED config
             ELSE IF Len(config.Plugins) = 0
             THEN /\ flux' = [flux EXCEPT !.pc = "kustomization"]
                  /\ config' = [config EXCEPT !.PluginFiles = << >>]
             ELSE /\ flux' = [flux EXCEPT !.pc = "plugins", !.i = 1]
                  /\ UNCHANGED config
    /\ UNCHANGED <<collect, fault, configureVars, suggestVars, menuVars, validateVars, values,
                   plugin, genResult, namespace, calls, fsFirst, registryVars>>

\* one iteration of the loop of generatePluginFiles; the last one returns the
\* list, which GenerateFluxStructure stores in config.PluginFiles
generatePluginFiles ==
    /\ flux.pc = "plugins"
    /\ \E order \in FileOrders :
          LET step == generatePluginFile(plugins, config.Plugins[flux.i], config.AppName,
                                         config.Namespace, order, fs)
              files == flux.pluginFiles \o step.files
              events == flux.events \o Events(step.calls, flux.i, step.err)
          IN /\ fs' = step.fs
             /\ IF ~step.err.ok
                THEN /\ flux' = [flux EXCEPT !.pc = "returned", !.err = step.err,
                                             !.pluginFiles = files, !.events = events]
                     /\ UNCHANGED config
                ELSE IF flux.i = Len(config.Plugins)
                THEN /\ flux' = [flux EXCEPT !.pc = "kustomization", !.pluginFiles = files,
                                             !.events = events]
                     /\ config' = [config EXCEPT !.PluginFiles = files]
                ELSE /\ flux' = [flux EXCEPT !.i = @ + 1, !.pluginFiles = files,
                                             !.events = events]
                     /\ UNCHANGED config
    /\ UNCHANGED <<collect, fault, configureVars, suggestVars, menuVars, validateVars, values,
                   plugin, genResult, namespace, calls, fsFirst, registryVars>>

\* generateKustomization and the return of GenerateFluxStructure
generateKustomization ==
    /\ flux.pc = "kustomization"
    /\ LET out == generateFromTemplateString(KustomizationTemplate(config),
                      Join(config.AppName, <<"kustomization.yaml">>), fs)
       IN /\ fs' = out.fs
          /\ flux' = [flux EXCEPT !.pc = "returned", !.err = out.err,
                                  !.events = Append(@, [op |-> "generateKustomization", i |-> 0,
                                                       ok |-> out.err.ok])]
    /\ UNCHANGED <<config, collect, fault, configureVars, suggestVars, menuVars, validateVars,
                   values, plugin, genResult, namespace, calls, fsFirst, registryVars>>

\* the values of an ExternalSecret instance, as the configuration form fills
\* them in; an empty name is an entry the user left out
SecretInstance(name, target) ==
    PluginConfig("externalsecret",
        SecretValues([name |-> IF name = "" THEN Absent ELSE Str(<<name>>),
                      secret_store_type |-> Str(<<"ClusterSecretStore">>),
                      secret_store_name |-> Str(<<"vault-backend">>),
                      secret_key |-> Str(<<"my-secret-key">>),
                      target_secret_name |-> Str(<<target>>),
                      refresh_interval |-> Str(<<"60m">>)]))

\* the values of an imageupdate instance holding the given repositories text
ImageInstance(repositories) ==
    PluginConfig("imageupdate",
        ImageValues(Str(<<"home-automation">>), Str(repositories), Str(Marshal(<<"p1">>))))

\* the instances a configuration may hold: ExternalSecrets (two of them write
\* the same file, one lacks a required value), image updates (one with a text
\* that is no JSON array) and an instance of a plugin nobody registered
FluxInstances ==
    { SecretInstance("db", "t1"), SecretInstance("cache", "t1"), SecretInstance("api", "t2"),
      SecretInstance("", "t2"),
      ImageInstance(Marshal(<<"r1">>)), ImageInstance(Marshal(<<"r2">>)),
      ImageInstance(<<"r1">>),
      PluginConfig("non-existent", << >>) }

\* the output tree before the run: nothing; the files of an earlier run; a
\* directory where the file of an ExternalSecret goes; a directory where
\* kustomization.yaml goes; a file where the application directory goes
FluxTrees ==
    LET dependencies == Join(AppDir, <<"dependencies">>)
        secret == Join(dependencies, <<"external-secret-", "t1", ".yaml">>)
        kustomization == Join(AppDir, <<"kustomization.yaml">>)
    IN { [dirs |-> {}, files |-> << >>],
         [dirs |-> {AppDir, dependencies},
          files |-> [q \in {secret, kustomization} |-> OldText]],
         [dirs |-> {AppDir, dependencies, secret}, files |-> << >>],
         [dirs |-> {AppDir, kustomization}, files |-> << >>],
         [dirs |-> {}, files |-> [q \in {AppDir} |-> OldText]] }

InitFlux ==
    /\ variables = << >>
    /\ values = << >>
    /\ result = None
    /\ plugin = ExternalSecretPlugin
    /\ fs \in FluxTrees
    /\ genResult = GenNone
    /\ namespace = <<"default">>
    /\ calls = 0
    /\ fsFirst = fs
    /\ plugins \in {NewRegistry, NewListerRegistry}
    /\ last = NoCall
    /\ \E instances \in Lists(FluxInstances, MaxInstances) :
          config = [AppName |-> AppDir, Namespace |-> <<"monitoring">>,
                    Plugins |-> instances, PluginFiles |-> << >>]
    /\ flux = NotRunning
    /\ collect = NotCollected
    /\ FaultIdle /\ ConfigureIdle /\ SuggestIdle /\ MenuIdle

NextFlux == GenerateFluxStructure \/ generatePluginFiles \/ generateKustomization

SpecFlux == InitFlux /\ [][NextFlux]_vars

-----------------------------------------------------------------------------
\* ImageUpdatePlugin.CollectCustomConfig: three forms, then the values map is
\* filled in.  What a form collects is an input; Absent stands for a form
\* whose Run returns an error (the user left).

PolicyTypeTimestamp == <<"timestamp">>

\* the object json.Marshal writes for a struct: every field without omitempty,
\* and the fields with omitempty that are not empty
RepositoryObject(r) ==
    [k \in {"name", "image", "interval"} \cup (IF r.SecretRef # << >> THEN {"secretRef"} ELSE {})
       |-> CASE k = "name" -> r.Name [] k = "image" -> r.Image
             [] k = "interval" -> r.Interval [] OTHER -> r.SecretRef]

PolicyObject(q) ==
    [k \in {"name", "repository", "policyType"}
           \cup (IF q.Range # << >> THEN {"range"} ELSE {})
           \cup (IF q.Pattern # << >> THEN {"pattern"} ELSE {})
           \cup (IF q.Extract # << >> THEN {"extract"} ELSE {})
           \cup (IF q.Order # << >> THEN {"order"} ELSE {})
       |-> CASE k = "name" -> q.Name [] k = "repository" -> q.Repository
             [] k = "policyType" -> q.PolicyType [] k = "range" -> q.Range
             [] k = "pattern" -> q.Pattern [] k = "extract" -> q.Extract
             [] OTHER -> q.Order]

\* the token that stands for an object
ObjectToken(obj) == CHOOSE t \in ObjectTokens : JsonObject[t] = obj

\* what configureImagePolicy returns
PolicyOutcome(err, policy) == [err |-> err, policy |-> policy]

\* a configuration that stores the policy type as the user chose it
configureImagePolicyAsChosen(repositoryName, answer, rangeAnswer) ==
    LET policy == [Name |-> << >>, Repository |-> repositoryName, PolicyType |-> << >>,
                   Range |-> << >>, Pattern |-> << >>, Extract |-> << >>, Order |-> << >>]
    IN IF answer = Absent THEN PolicyOutcome("user aborted", policy)
       ELSE IF answer.policyType = PolicyTypeTimestamp
       THEN PolicyOutcome("", [policy EXCEPT !.Name = answer.Name,
                                  !.PolicyType = PolicyTypeTimestamp,
                                  !.Pattern = <<"^main-[a-f0-9]+-(?P<ts>[0-9]+)">>,
                                  !.Extract = <<"$ts">>, !.Order = <<"asc">>])
       ELSE IF rangeAnswer = Absent
       THEN PolicyOutcome("user aborted", [policy EXCEPT !.Name = answer.Name,
                                              !.PolicyType = answer.policyType])
       ELSE PolicyOutcome("", [policy EXCEPT !.Name = answer.Name,
                                  !.PolicyType = answer.policyType, !.Range = rangeAnswer.Range])

\* ImageUpdatePlugin.configureImagePolicy: answer is what the policy form
\* collects, rangeAnswer what the range form collects
configureImagePolicy(repositoryName, answer, rangeAnswer) ==
    LET policy == [Name |-> << >>, Repository |-> repositoryName, PolicyType |-> << >>,
                   Range |-> << >>, Pattern |-> << >>, Extract |-> << >>, Order |-> << >>]
    IN IF answer = Absent THEN PolicyOutcome("user aborted", policy)
       ELSE IF answer.policyType = PolicyTypeTimestamp
       THEN PolicyOutcome("", [policy EXCEPT !.Name = answer.Name,
                                  !.Pattern = <<"^main-[a-f0-9]+-(?P<ts>[0-9]+)">>,
                                  !.Extract = <<"$ts">>, !.Order = <<"asc">>,
                                  !.PolicyType = PolicyTypeNumerical])
       ELSE IF rangeAnswer = Absent
       THEN PolicyOutcome("user aborted", [policy EXCEPT !.Name = answer.Name,
                                              !.PolicyType = answer.policyType])
       ELSE PolicyOutcome("", [policy EXCEPT !.Name = answer.Name,
                                  !.PolicyType = answer.policyType, !.Range = rangeAnswer.Range])

\* the entries CollectCustomConfig stores
CustomConfig(repo, policy, automation) ==
    [image_repositories |-> Str(Marshal(<<ObjectToken(RepositoryObject(repo))>>)),
     image_policies |-> Str(Marshal(<<ObjectToken(PolicyObject(policy))>>)),
     git_repository_name |-> Str(automation.GitRepositoryName),
     git_repository_namespace |-> Str(automation.GitRepositoryNamespace),
     update_path |-> Str(automation.UpdatePath),
     git_branch |-> Str(automation.GitBranch),
     author_name |-> Str(automation.AuthorName),
     author_email |-> Str(automation.AuthorEmail),
     automation_interval |-> Str(automation.Interval),
     update_strategy |-> Str(<<"Setters">>),
     commit_message_template |-> Str(<<"chore: update container versions">>)]

\* what CollectCustomConfig returns and the values map it leaves
CollectOutcome(err, vals) == [err |-> err, values |-> vals]

\* ImageUpdatePlugin.CollectCustomConfig
CollectCustomConfig(vals, answers) ==
    LET policy == configureImagePolicy(answers.repository.Name, answers.policy, answers.range)
        stored == CustomConfig(answers.repository, policy.policy, answers.automation)
    IN IF answers.repository = Absent
       THEN CollectOutcome("failed to configure image repository", vals)
       ELSE IF policy.err # ""
       THEN CollectOutcome("failed to configure image policy", vals)
       ELSE IF answers.automation = Absent
       THEN CollectOutcome("failed to configure image update automation", vals)
       ELSE CollectOutcome("", [k \in DOMAIN vals \cup DOMAIN stored |->
                                   IF k \in DOMAIN stored THEN stored[k] ELSE vals[k]])

\* what the repository form collects: a name and an image that are not empty,
\* one of the intervals of the select, and a secret reference or none
RepositoryAnswers ==
    { [Name |-> <<"zigbee2mqtt">>, Image |-> <<"koenkk/zigbee2mqtt">>, Interval |-> i,
       SecretRef |-> s] : i \in {<<"6h">>, <<"60m">>}, s \in {<< >>, <<"harbor-docker-creds">>} }

\* what the policy form collects: a name and one of the two options
PolicyAnswers ==
    { [Name |-> <<"zigbee2mqtt">>, policyType |-> t] :
        t \in {PolicyTypeSemver, PolicyTypeTimestamp} }

\* the options of the range form
RangeAnswers == {[Range |-> r] : r \in {<<"*">>, <<"^1.0.0">>, <<"~1.2.0">>}}

AutomationAnswers ==
    { [GitRepositoryName |-> <<"flux-system">>, GitRepositoryNamespace |-> <<"flux-system">>,
       UpdatePath |-> <<"./apps/myapp">>, GitBranch |-> <<"main">>,
       AuthorName |-> <<"flux">>, AuthorEmail |-> <<"flux@example.com">>, Interval |-> i] :
        i \in {<<"10m">>, <<"5m">>} }

\* the values map before the call: empty, with the name of the automation, or
\* holding the policies of an earlier configuration
CollectValues ==
    { << >>,
      [k \in {"automation_name"} |-> Str(<<"home-automation">>)],
      [k \in {"automation_name", "image_policies"} |->
          IF k = "automation_name" THEN Str(<<"home-automation">>)
          ELSE Str(Marshal(<<"p7">>))] }

InitCollect ==
    /\ variables = ImageUpdateVariables
    /\ values \in CollectValues
    /\ result = None
    /\ plugin = NewImageUpdatePlugin
    /\ fs = [dirs |-> {}, files |-> << >>]
    /\ genResult = GenNone
    /\ namespace = <<"default">>
    /\ calls = 0
    /\ fsFirst = fs
    /\ RegistryIdle
    /\ FluxIdle
    /\ FaultIdle /\ ConfigureIdle /\ SuggestIdle /\ MenuIdle

\* err := plugin.CollectCustomConfig(values)
CallCollectCustomConfig ==
    /\ ~collect.called
    /\ \E repository \in {Absent} \cup RepositoryAnswers,
          policy \in {Absent} \cup PolicyAnswers,
          range \in {Absent} \cup RangeAnswers,
          automation \in {Absent} \cup AutomationAnswers :
          LET answers == [repository |-> repository, policy |-> policy, range |-> range,
                          automation |-> automation]
              out == CollectCustomConfig(values, answers)
          IN /\ values' = out.values
             /\ collect' = [called |-> TRUE, err |-> out.err, before |-> values,
                            answers |-> answers]
    /\ UNCHANGED <<config, flux, fault, configureVars, suggestVars, menuVars, validateVars,
                   genVars, registryVars>>

\* the values are validated once they are collected
ValidateCollected ==
    /\ collect.called /\ collect.err = ""
    /\ CallImageValidate

NextCollect == CallCollectCustomConfig \/ ValidateCollected

SpecCollect == InitCollect /\ [][NextCollect]_vars

-----------------------------------------------------------------------------
\* Generation from values maps as callers may hold them: JSON fields that are
\* arrays, null, texts json.Unmarshal rejects, no strings, or left out, with or
\* without a Namespace entry of the caller's own.

DecodedFieldValues(token) ==
    { Absent, Bool(<<"true">>), Str(<<"[", "]">>), Str(Marshal(<<token>>)),
      Str(<<"null">>), Str(<<"invalid json">>), Str(<<"[", token>>) }

\* the output directory, empty or holding the three files of an earlier run
DecodeTrees ==
    { [dirs |-> {AppDir}, files |-> << >>],
      [dirs |-> {AppDir},
       files |-> [q \in {Join(AppDir, <<f>>) : f \in ImageFileNames} |-> OldText]] }

InitDecode ==
    /\ variables = ImageUpdateVariables
    /\ \E repositories \in DecodedFieldValues("r1"), policies \in DecodedFieldValues("p1"),
          ns \in {Absent, Str(<<"kube-system">>)} :
            values = SecretValues([automation_name |-> Str(<<"home-automation">>),
                                   image_repositories |-> repositories,
                                   image_policies |-> policies, Namespace |-> ns])
    /\ result = None
    /\ plugin \in {NewImageUpdatePlugin, ExternalSecretPlugin}
    /\ fs \in DecodeTrees
    /\ genResult = GenNone
    /\ namespace = <<"monitoring">>
    /\ calls = 0
    /\ fsFirst = fs
    /\ RegistryIdle
    /\ FluxIdle
    /\ FaultIdle /\ ConfigureIdle /\ SuggestIdle /\ MenuIdle

NextDecode == CallImageValidate \/ CallGenerateFile \/ CallImageUpdateGenerateFile

SpecDecode == InitDecode /\ [][NextDecode]_vars

-----------------------------------------------------------------------------
\* Properties of BasePlugin.Validate (checked under SpecValidate)

Validated == result # None
Failed == result.kind = "ValidationError"
Declared == 1..Len(variables)
Present(i) == variables[i].Name \in DOMAIN values
NonNull(i) == Present(i) /\ values[variables[i].Name] # Nil
Submission(i) == values[variables[i].Name]

MissingRequired(i) == variables[i].Required /\ ~Present(i)

IsBooleanType(i) == variables[i].Type \in {VariableTypeBool, VariableTypeCheckbox}
NotBoolean(i) == NonNull(i) /\ IsBooleanType(i) /\ Submission(i).t # "bool"
NotString(i) == NonNull(i) /\ variables[i].Type = VariableTypeText /\ Submission(i).t # "string"

IsOptionValue(i, value) ==
    \E j \in 1..Len(variables[i].Options) : variables[i].Options[j].Value = value
IsOptionLabel(i, value) ==
    \E j \in 1..Len(variables[i].Options) : Str(<<variables[i].Options[j].Label>>) = value
NotAllowed(i) ==
    NonNull(i) /\ variables[i].Type = VariableTypeSelect /\ ~IsOptionValue(i, Submission(i))

\* variable i alone makes the values map invalid
Offending(i) == MissingRequired(i) \/ NotBoolean(i) \/ NotString(i) \/ NotAllowed(i)
NoneOffendingBefore(i) == \A j \in Declared : j < i => ~Offending(j)
OthersValid(i) == \A j \in Declared : j # i => ~Offending(j)

\* C1 as stated: whenever a required variable V is absent from values,
\* Validate fails with a ValidationError whose Variable is V, whatever the
\* other variables hold.
C1_NamesEveryMissing ==
    Validated =>
        \A i \in Declared :
            MissingRequired(i) => Failed /\ result.Variable = variables[i].Name

\* C1 amended: whenever a required variable V is absent from values, Validate
\* fails with a ValidationError "required variable is missing"-style failure;
\* its Variable is V when no variable declared before V is itself offending
\* (required and absent, wrongly typed or disallowed): the error always names
\* the first offending variable in declaration order.
C1_NamesFirstMissing ==
    Validated =>
        \A i \in Declared :
            MissingRequired(i) =>
                /\ Failed
                /\ \E f \in Declared : Offending(f) /\ NoneOffendingBefore(f)
                                       /\ result.Variable = variables[f].Name
                /\ NoneOffendingBefore(i) =>
                       /\ result.Variable = variables[i].Name
                       /\ result.Message = "required variable is missing"

\* C1 witness: the second variable is required and absent, the first one is
\* submitted and valid, and Validate names the second.
C1_Witness ==
    /\ Validated /\ Len(variables) >= 2
    /\ MissingRequired(2) /\ NonNull(1) /\ ~Offending(1)
    /\ Failed /\ result.Variable = variables[2].Name

\* C2 as stated: for a Select variable, all other variables being valid,
\* Validate succeeds exactly when the submitted value equals the Value of one
\* of its options.
C2_SelectIffOption ==
    Validated =>
        \A i \in Declared :
            (variables[i].Type = VariableTypeSelect /\ Present(i) /\ OthersValid(i))
                => (result.ok <=> IsOptionValue(i, Submission(i)))

\* C2 amended: for a Select variable that holds a non-null submitted value,
\* all other variables being valid, Validate succeeds exactly when the value
\* equals the Value of one of its options (a Label never makes it
\* acceptable); a submitted null is accepted without looking at the options.
C2_SelectIffOptionNonNull ==
    Validated =>
        \A i \in Declared :
            (variables[i].Type = VariableTypeSelect /\ Present(i) /\ OthersValid(i))
                => /\ NonNull(i) => (result.ok <=> IsOptionValue(i, Submission(i)))
                   /\ NonNull(i) /\ ~result.ok =>
                          /\ result.Variable = variables[i].Name
                          /\ result.Message = "value is not one of the allowed options"
                   /\ ~NonNull(i) => result.ok

\* C2 witness: a Select variable holds the Label of one of its options, which
\* is not the Value of any, and Validate rejects it.
C2_Witness ==
    /\ Validated
    /\ \E i \in Declared :
          /\ variables[i].Type = VariableTypeSelect /\ NonNull(i) /\ OthersValid(i)
          /\ IsOptionLabel(i, Submission(i)) /\ ~IsOptionValue(i, Submission(i))
          /\ Failed /\ result.Variable = variables[i].Name

\* a ValidationError naming variable i is never caused by a null or by an
\* absent optional variable
NeverBlamesNullOrAbsentOptional ==
    \A i \in Declared :
        (Failed /\ result.Variable = variables[i].Name) =>
            /\ ~(Present(i) /\ ~NonNull(i))
            /\ ~(~Present(i) /\ ~variables[i].Required)

\* C3 as stated: a declared variable present with a non-null value that is a
\* non-boolean in a Boolean/Checkbox variable or a non-string in a Text
\* variable makes Validate fail with a ValidationError naming that variable;
\* a present null is never type-checked and an absent optional variable never
\* causes a failure.
C3_NamesEveryMistyped ==
    Validated =>
        /\ \A i \in Declared :
              (NotBoolean(i) \/ NotString(i)) =>
                  Failed /\ result.Variable = variables[i].Name
        /\ NeverBlamesNullOrAbsentOptional

\* C3 amended: such a variable makes Validate fail with a ValidationError,
\* which names that variable (with the message of its type) when no variable
\* declared before it is itself offending; a present null is never
\* type-checked and an absent optional variable never causes a failure.
C3_NamesFirstMistyped ==
    Validated =>
        /\ \A i \in Declared :
              (NotBoolean(i) \/ NotString(i)) =>
                  /\ Failed
                  /\ NoneOffendingBefore(i) =>
                        /\ result.Variable = variables[i].Name
                        /\ NotBoolean(i) => result.Message = "value must be a boolean"
                        /\ NotString(i) => result.Message = "value must be a string"
        /\ NeverBlamesNullOrAbsentOptional

\* C3 witness: a Checkbox variable declared second holds a string, the first
\* variable holds a null, and Validate names the second.
C3_Witness ==
    /\ Validated /\ Len(variables) >= 2
    /\ variables[2].Type = VariableTypeCheckbox /\ NotBoolean(2)
    /\ Present(1) /\ ~NonNull(1)
    /\ Failed /\ result.Variable = variables[2].Name

\* the values map without the keys no variable declares
DeclaredNames == {variables[i].Name : i \in Declared}
KnownValues == [k \in DOMAIN values \cap DeclaredNames |-> values[k]]

\* C4 (result): the outcome of Validate is the outcome on the values map
\* stripped of every key that is not a declared variable name.
C4_IgnoresUnknownKeys == Validated => result = Validate(variables, KnownValues)

\* C4 (frame): a Validate call leaves the values map and the plugin's schema
\* as they were.
C4_ValidateStep == result = None /\ result' # None
C4_LeavesArguments == C4_ValidateStep => values' = values /\ variables' = variables

\* C4: BasePlugin.Validate is a pure function of (schema, values): it changes
\* neither, and keys of values that are not declared never change its result.
C4_Pure == [](C4_IgnoresUnknownKeys) /\ [][C4_LeavesArguments]_vars

\* C4 witness: Validate has run on a map that holds an undeclared key next to
\* a declared one, and failed on the declared one.
C4_Witness ==
    /\ Validated /\ Failed
    /\ \E k \in DOMAIN values : k \notin DeclaredNames
    /\ \E k \in DOMAIN values : k \in DeclaredNames

-----------------------------------------------------------------------------
\* Properties of GenerateFile (checked under SpecGenerate)

Generated == calls >= 1

\* the paths a successful call writes
WrittenPaths ==
    IF plugin.impl = "base"
    THEN {Join(AppDir, Execute(plugin.filePath, TemplateData(values, namespace)))}
    ELSE {Join(AppDir, <<f>>) : f \in ImageFileNames}

EndsWithOneNewline(text) ==
    /\ Len(text) >= 1 /\ text[Len(text)] = NL
    /\ Len(text) >= 2 => text[Len(text) - 1] # NL

\* C5 as stated: every file written by a successful GenerateFile (BasePlugin
\* and the three ImageUpdate files) ends with exactly one trailing newline,
\* whether or not the rendered template output already ended with one.
C5_ExactlyOneNewline ==
    (Generated /\ genResult.ok) =>
        \A path \in WrittenPaths :
            path \in DOMAIN fs.files /\ EndsWithOneNewline(fs.files[path])

\* C6: a second GenerateFile call with the same (values, outputRoot,
\* namespace) leaves the output tree exactly as the first call left it: the
\* same directories, the same files, the same contents.
C6_Idempotent == calls >= 2 => fs = fsFirst

\* C6 witness: the image update plugin has generated its three files twice,
\* over a file an earlier run had left, from a non-empty repository list.
C6_Witness ==
    /\ calls = 2 /\ genResult.ok /\ plugin.impl = "imageupdate"
    /\ Len(fs.files[Join(AppDir, <<"image-repository.yaml">>)]) > 1
    /\ Join(AppDir, <<"test.yaml">>) \in DOMAIN fs.files
    /\ fs.files[Join(AppDir, <<"test.yaml">>)] = OldText
    /\ fs.files[Join(AppDir, <<"image-policy.yaml">>)] # OldText

-----------------------------------------------------------------------------
\* Properties of the Registry (checked under SpecRegistry)

\* the plugin bound to every name of reg1 is bound to it in reg2
KeepsBindings(reg1, reg2) ==
    \A n \in DOMAIN reg1 : n \in DOMAIN reg2 /\ reg2[n] = reg1[n]

SameRegistry(reg1, reg2) ==
    /\ Cardinality(DOMAIN reg1) = Cardinality(DOMAIN reg2)
    /\ DOMAIN reg1 = DOMAIN reg2
    /\ KeepsBindings(reg1, reg2)

Registering == last.op = "Register"
Rejectable ==
    \/ last.plugin = NilPlugin
    \/ last.plugin.name = ""
    \/ last.plugin.name \in DOMAIN last.before

\* C7: Register returns an error when the plugin is nil, when its name is
\* empty, or when the name is already registered, and then leaves the
\* registry unchanged: same count, same names, same plugin under every name.
C7_RejectsAndKeeps ==
    (Registering /\ Rejectable) =>
        /\ last.err # NoError
        /\ SameRegistry(last.before, plugins)

\* C7 witness: a second object with an already registered name was handed to
\* Register and refused, the first object staying bound.
C7_Witness ==
    /\ Registering /\ last.plugin # NilPlugin
    /\ last.plugin.name \in DOMAIN last.before
    /\ last.before[last.plugin.name] # last.plugin
    /\ last.err # NoError

\* the names of a list of plugins
RECURSIVE NamesOf(_)
NamesOf(list) == IF list = << >> THEN << >> ELSE <<Head(list).name>> \o NamesOf(Tail(list))

ExactlyOnce(names, set) ==
    /\ Len(names) = Cardinality(set)
    /\ \A n \in set : Cardinality({i \in 1..Len(names) : names[i] = n}) = 1

\* C8: a Register of a non-nil plugin with a non-empty name that is not yet
\* registered succeeds, raises Count by exactly one, makes Exists(name) true
\* and Get(name) return that very plugin, and keeps every earlier binding;
\* List and GetNames hold each registered name exactly once.
C8_RegistersNew ==
    /\ (Registering /\ ~Rejectable) =>
          /\ last.err = NoError
          /\ Count(plugins) = Count(last.before) + 1
          /\ Exists(plugins, last.plugin.name)
          /\ Get(plugins, last.plugin.name) = [plugin |-> last.plugin, exists |-> TRUE]
          /\ KeepsBindings(last.before, plugins)
    /\ last.op = "List" => ExactlyOnce(NamesOf(last.list), DOMAIN plugins)
    /\ last.op = "GetNames" => ExactlyOnce(last.names, DOMAIN plugins)

\* C8 witness: a third plugin was registered next to two earlier ones.
C8_Witness ==
    /\ Registering /\ ~Rejectable /\ last.err = NoError
    /\ Count(last.before) >= 2 /\ Count(plugins) = Count(last.before) + 1

\* C9: Get on a name that is not registered returns (nil, false), never a
\* default plugin, and Get never modifies the registry; Get on a registered
\* name returns the plugin bound to it, whose Name() is that name.
C9_GetNotFound ==
    last.op = "Get" =>
        /\ SameRegistry(last.before, plugins)
        /\ last.name \notin DOMAIN last.before =>
              last.plugin = NilPlugin /\ ~last.exists
        /\ last.name \in DOMAIN last.before =>
              /\ last.exists
              /\ last.plugin = last.before[last.name]
              /\ last.plugin.name = last.name

\* C9 witness: Get("non-existent") has returned (nil, false).
C9_Witness ==
    /\ last.op = "Get" /\ last.name = "non-existent"
    /\ last.plugin = NilPlugin /\ ~last.exists

\* C10 as stated: a registry freshly returned by NewRegistry holds both
\* "externalsecret" and "imageupdate", and Get of each returns a non-nil
\* plugin whose Name() is the looked-up name.
C10_BuiltinsRegistered ==
    last.op = "NewRegistry" =>
        \A n \in {"externalsecret", "imageupdate"} :
            /\ Exists(plugins, n)
            /\ Get(plugins, n).exists
            /\ Get(plugins, n).plugin # NilPlugin
            /\ Get(plugins, n).plugin.name = n

-----------------------------------------------------------------------------
\* Properties of ImageUpdatePlugin.Validate (checked under SpecImageValidate)

\* the submitted value of a field is a text
IsText(k) == k \in DOMAIN values /\ values[k].t = "string"

\* the text is "null" or opens and closes as an array
Decodable(k) ==
    \/ values[k].v = <<"null">>
    \/ values[k].v[1] = "[" /\ values[k].v[Len(values[k].v)] = "]"

\* the JSON objects of a decodable field, in array order
Records(k) ==
    IF values[k].v = <<"null">> THEN << >>
    ELSE [i \in 1..((Len(values[k].v) - 1) \div 2) |-> JsonObject[values[k].v[2 * i]]]

Has(obj, key) == key \in DOMAIN obj /\ obj[key] # << >>

\* the base validation has nothing to report about automation_name
BaseOk ==
    /\ "automation_name" \in DOMAIN values
    /\ values["automation_name"].t \in {"string", "nil"}

\* the rule a repository record breaks first ("" when it breaks none)
RepositoryRule(obj) ==
    IF ~Has(obj, "name") THEN "name is required"
    ELSE IF ~Has(obj, "image") THEN "image is required"
    ELSE IF ~Has(obj, "interval") THEN "interval is required"
    ELSE ""

\* the rule of its policy type a policy record breaks first
TypeRule(obj) ==
    IF ~Has(obj, "policyType") THEN ""
    ELSE IF obj.policyType = <<"semver">>
    THEN (IF ~Has(obj, "range") THEN "range is required for semver policy" ELSE "")
    ELSE IF obj.policyType = <<"numerical">>
    THEN (IF ~Has(obj, "pattern") THEN "pattern is required for numerical policy"
          ELSE IF ~Has(obj, "extract") THEN "extract is required for numerical policy"
          ELSE IF ~Has(obj, "order") THEN "order is required for numerical policy"
          ELSE "")
    ELSE ""

PolicyRule(obj) ==
    IF ~Has(obj, "name") THEN "name is required"
    ELSE IF ~Has(obj, "repository") THEN "repository is required"
    ELSE IF ~Has(obj, "policyType") THEN "policyType is required"
    ELSE TypeRule(obj)

\* the position, counted from 1, of the first record breaking a rule (0: none)
FirstRepository ==
    IF \A i \in 1..Len(Records("image_repositories")) :
          RepositoryRule(Records("image_repositories")[i]) = ""
    THEN 0
    ELSE CHOOSE i \in 1..Len(Records("image_repositories")) :
            /\ RepositoryRule(Records("image_repositories")[i]) # ""
            /\ \A j \in 1..(i - 1) : RepositoryRule(Records("image_repositories")[j]) = ""

FirstPolicy ==
    IF \A i \in 1..Len(Records("image_policies")) :
          PolicyRule(Records("image_policies")[i]) = ""
    THEN 0
    ELSE CHOOSE i \in 1..Len(Records("image_policies")) :
            /\ PolicyRule(Records("image_policies")[i]) # ""
            /\ \A j \in 1..(i - 1) : PolicyRule(Records("image_policies")[j]) = ""

\* image_repositories gives Validate nothing to report
RepositoriesFine ==
    IsText("image_repositories") =>
        Decodable("image_repositories") /\ FirstRepository = 0

\* C11: Validate reports a missing automation_name first, then
\* image_repositories, then image_policies; a text that is no JSON is reported
\* under its field with an 'invalid JSON format' message, and a decodable array
\* with an offending record is reported under its field with, as message, the
\* index-qualified rule of the first offending record.
C11_IndexQualifiedRule ==
    Validated =>
       /\ "automation_name" \notin DOMAIN values =>
             result = ValidationError("automation_name", "required variable is missing")
       /\ BaseOk /\ IsText("image_repositories") /\ ~Decodable("image_repositories") =>
             result = ValidationError("image_repositories",
                                      "invalid JSON format: invalid character")
       /\ BaseOk /\ IsText("image_repositories") /\ Decodable("image_repositories")
             /\ FirstRepository # 0 =>
             result = ValidationError("image_repositories",
                         "repository " \o ToString(FirstRepository - 1) \o ": "
                         \o RepositoryRule(Records("image_repositories")[FirstRepository]))
       /\ BaseOk /\ RepositoriesFine /\ IsText("image_policies")
             /\ ~Decodable("image_policies") =>
             result = ValidationError("image_policies",
                                      "invalid JSON format: invalid character")
       /\ BaseOk /\ RepositoriesFine /\ IsText("image_policies")
             /\ Decodable("image_policies") /\ FirstPolicy # 0 =>
             result = ValidationError("image_policies",
                         "policy " \o ToString(FirstPolicy - 1) \o ": "
                         \o PolicyRule(Records("image_policies")[FirstPolicy]))

\* every record of image_policies names itself, its repository and its type
PoliciesIdentified ==
    /\ IsText("image_policies") /\ Decodable("image_policies")
    /\ \A i \in 1..Len(Records("image_policies")) :
          /\ Has(Records("image_policies")[i], "name")
          /\ Has(Records("image_policies")[i], "repository")
          /\ Has(Records("image_policies")[i], "policyType")

\* C12: among policy records that carry name, repository and policyType,
\* Validate rejects the first semver record without a range and the first
\* numerical record without pattern, extract or order (looked at in that
\* order), and accepts the list when every record has the fields of its type.
C12_PolicyTypeFields ==
    Validated /\ BaseOk /\ RepositoriesFine /\ PoliciesIdentified =>
        IF FirstPolicy = 0
        THEN result = Ok
        ELSE result = ValidationError("image_policies",
                 "invalid JSON format: validation error for variable 'image_policies': policy "
                 \o ToString(FirstPolicy - 1) \o ": "
                 \o TypeRule(Records("image_policies")[FirstPolicy]))

\* C12 witness: a numerical record without extract and order, behind a valid
\* semver record, is rejected for its extract.
C12_Witness ==
    /\ Validated /\ BaseOk /\ RepositoriesFine /\ PoliciesIdentified
    /\ values["image_policies"].v = <<"[", "p1", ",", "p5", "]">>
    /\ result.Variable = "image_policies"

\* C13: Validate accepts a policy record only if its policyType is semver,
\* numerical or timestamp.
C13_OnlyKnownPolicyTypes ==
    Validated /\ result = Ok /\ IsText("image_policies") /\ Decodable("image_policies") =>
        \A i \in 1..Len(Records("image_policies")) :
            /\ Has(Records("image_policies")[i], "policyType")
            /\ Records("image_policies")[i].policyType
                  \in {<<"semver">>, <<"numerical">>, <<"timestamp">>}

-----------------------------------------------------------------------------
\* Properties of ImageUpdatePlugin.GenerateFile (checked under SpecImageUpdate)

\* a YAML stream: the positions where a document starts
Starts(text) == {i \in 1..Len(text) : text[i] = "---"}
BlockCount(text) == Cardinality(Starts(text))
NthStart(text, n) ==
    CHOOSE i \in Starts(text) : Cardinality({j \in Starts(text) : j < i}) = n - 1

\* the n-th document, from its "---" to the atom before the next one
Block(text, n) ==
    SubSeq(text, NthStart(text, n),
           IF n = BlockCount(text) THEN Len(text) ELSE NthStart(text, n + 1) - 1)

Contains(text, sub) ==
    \E i \in 1..(Len(text) - Len(sub) + 1) : SubSeq(text, i, i + Len(sub) - 1) = sub

\* the text has the line "key value"
Carries(text, key, val) == Contains(text, <<key>> \o val \o <<NL>>)

ImagePath(filename) == Join(AppDir, <<filename>>)

\* C14: for a list of N >= 0 repository records that passes Validate,
\* GenerateFile produces the three files; image-repository.yaml holds N blocks
\* in record order, each with the record's name, image and interval and with a
\* secretRef section exactly when the record has a secretRef; with N = 0 the
\* repository file (and the policy file of an empty policy list) holds no block
\* and the automation file still holds automation_name and the namespace.
C14_RendersEveryRepository ==
    calls >= 1 /\ result = Ok /\ IsText("image_repositories") =>
       /\ genResult.ok
       /\ \A f \in ImageFileNames : ImagePath(f) \in DOMAIN fs.files
       /\ LET text == fs.files[ImagePath("image-repository.yaml")]
              recs == Records("image_repositories")
          IN /\ BlockCount(text) = Len(recs)
             /\ \A i \in 1..Len(recs) :
                   /\ Carries(Block(text, i), "  name: ", recs[i].name)
                   /\ Carries(Block(text, i), "  image: ", recs[i].image)
                   /\ Carries(Block(text, i), "  interval: ", recs[i].interval)
                   /\ Has(recs[i], "secretRef") <=> "  secretRef:" \in
                         {Block(text, i)[j] : j \in 1..Len(Block(text, i))}
                   /\ Has(recs[i], "secretRef") =>
                         Contains(Block(text, i),
                                  <<"  secretRef:", NL, "    name: ">> \o recs[i].secretRef
                                  \o <<NL>>)
       /\ Len(Records("image_repositories")) = 0 =>
             /\ Len(Records("image_policies")) = 0 =>
                   BlockCount(fs.files[ImagePath("image-policy.yaml")]) = 0
             /\ Carries(fs.files[ImagePath("image-update-automation.yaml")],
                        "  name: ", values["automation_name"].v)
             /\ Carries(fs.files[ImagePath("image-update-automation.yaml")],
                        "  namespace: ", namespace)

\* the sections of a policy block
HasSemver(block) == \E j \in 1..Len(block) : block[j] = "    semver:"
HasFilterTags(block) == \E j \in 1..Len(block) : block[j] = "  filterTags:"
HasNumerical(block) == \E j \in 1..Len(block) : block[j] = "    numerical:"

\* C15: in image-policy.yaml the section of a block follows the policyType of
\* its record alone: semver gives a semver range and neither filterTags nor
\* numerical, numerical gives filterTags and a numerical order and no semver,
\* and no block holds both.
C15_PolicySectionByType ==
    calls >= 1 /\ genResult.ok =>
        LET text == fs.files[ImagePath("image-policy.yaml")]
            recs == Records("image_policies")
        IN /\ BlockCount(text) = Len(recs)
           /\ \A i \in 1..Len(recs) :
                 /\ recs[i].policyType = <<"semver">> =>
                       /\ Contains(Block(text, i),
                                   <<"    semver:", NL, "      range: '">> \o recs[i].range
                                   \o <<"'">>)
                       /\ ~HasFilterTags(Block(text, i)) /\ ~HasNumerical(Block(text, i))
                 /\ recs[i].policyType = <<"numerical">> =>
                       /\ HasFilterTags(Block(text, i))
                       /\ Contains(Block(text, i),
                                   <<"    numerical:", NL, "      order: ">> \o recs[i].order
                                   \o <<NL>>)
                       /\ ~HasSemver(Block(text, i))
                 /\ ~(HasSemver(Block(text, i))
                      /\ (HasFilterTags(Block(text, i)) \/ HasNumerical(Block(text, i))))

\* C15 witness: a generated policy file with a semver block and behind it the
\* block of a numerical policy that also carries a range.
C15_Witness ==
    /\ calls >= 1 /\ genResult.ok
    /\ values["image_policies"].v = <<"[", "p1", ",", "pb", "]">>
    /\ HasSemver(Block(fs.files[ImagePath("image-policy.yaml")], 1))
    /\ HasNumerical(Block(fs.files[ImagePath("image-policy.yaml")], 2))

-----------------------------------------------------------------------------
\* Properties of the ExternalSecret plugin (checked under SpecExternalSecret)

\* <outputRoot>/dependencies/external-secret-<target_secret_name>.yaml
SecretPath ==
    AppDir \o <<"/", "dependencies", "/", "external-secret-">>
    \o values["target_secret_name"].v \o <<".yaml">>

\* the file has the line of a submitted text value
CarriesValue(text, key, k) == IsText(k) => Carries(text, key, values[k].v)

\* a GenerateFile call on values that passed Validate
C16_Step ==
    calls' = calls + 1 /\ result = Ok =>
       /\ genResult'.ok
       /\ DOMAIN fs'.files = DOMAIN fs.files \cup {SecretPath}
       /\ \A q \in DOMAIN fs.files \ {SecretPath} : fs'.files[q] = fs.files[q]
       /\ fs'.dirs = fs.dirs \cup {AppDir, AppDir \o <<"/", "dependencies">>}
       /\ Carries(fs'.files[SecretPath], "  namespace: ", namespace)
       /\ CarriesValue(fs'.files[SecretPath], "    kind: ", "secret_store_type")
       /\ CarriesValue(fs'.files[SecretPath], "    name: ", "secret_store_name")
       /\ CarriesValue(fs'.files[SecretPath], "        key: ", "secret_key")
       /\ CarriesValue(fs'.files[SecretPath], "  refreshInterval: ", "refresh_interval")
       /\ CarriesValue(fs'.files[SecretPath], "    name: ", "target_secret_name")

-----------------------------------------------------------------------------
\* Properties of BasePlugin.GenerateFile under failures (checked under SpecFaults)

\* the path the call writes to, when the path template parses
OutputPath == Join(AppDir, Execute(plugin.filePath, TemplateData(values, namespace)))

\* what goes wrong in the call about to be made
DirectoryFails ==
    fault.op = "mkdir" \/ \E d \in Ancestors(Dir(OutputPath)) : d \in DOMAIN fs.files
FileFails == fault.op = "create" \/ OutputPath \in fs.dirs
WriteFails == fault.op = "write"

C17_Step ==
    calls' = calls + 1 =>
       /\ Malformed(plugin.filePath) =>
             /\ genResult' = TemplateError(plugin.name, "filepath")
             /\ fs'.files = fs.files
       /\ ~Malformed(plugin.filePath) /\ ~DirectoryFails /\ Malformed(plugin.template) =>
             /\ genResult' = TemplateError(plugin.name, "yaml")
             /\ fs'.files = fs.files
       /\ ~Malformed(plugin.filePath) /\ DirectoryFails =>
             genResult' = FileError(plugin.name, "create_directory", Dir(OutputPath))
       /\ ~Malformed(plugin.filePath) /\ ~DirectoryFails /\ ~Malformed(plugin.template)
             /\ FileFails =>
             genResult' = FileError(plugin.name, "create_file", OutputPath)
       /\ ~Malformed(plugin.filePath) /\ ~DirectoryFails /\ ~Malformed(plugin.template)
             /\ ~FileFails /\ WriteFails =>
             /\ genResult'.kind = "FileError"
             /\ genResult'.Plugin = plugin.name
             /\ genResult'.Path = OutputPath
       /\ \/ Malformed(plugin.filePath) \/ Malformed(plugin.template)
          \/ DirectoryFails \/ FileFails \/ WriteFails
          => ~genResult'.ok

\* C17: GenerateFile returns a TemplateError naming the plugin and the template
\* kind for a malformed path or body template, creating and truncating no file;
\* it returns directory-creation, file-creation and write failures as a
\* FileError naming the plugin, the operation and the path; and it reports no
\* failure as success.
C17_TypedFailures == [][C17_Step]_vars

-----------------------------------------------------------------------------
\* Properties of ConfigureWithAutoComplete (checked under SpecConfigure)

\* the store name field has been built
FieldBuilt == configure.secretStoreType # ""

\* the listing the chosen store type asks for succeeded and found stores
ListingFound ==
    /\ ~kubeClient.nil
    /\ IF configure.secretStoreType = "ClusterSecretStore"
       THEN ~kubeClient.cluster.err /\ kubeClient.cluster.names # << >>
       ELSE /\ ~kubeClient.namespaced[configure.namespace].err
            /\ kubeClient.namespaced[configure.namespace].names # << >>

\* C18: the store name step offers a selection only when the lister is there
\* and its listing (cluster-wide for ClusterSecretStore, of the namespace for
\* SecretStore) succeeds with at least one name, the selection being those
\* names; otherwise the step asks for free text; and the only error
\* ConfigureWithAutoComplete returns is that of a form the user left.
C18_SelectOnlyFromLister ==
    /\ FieldBuilt =>
          IF ListingFound
          THEN /\ configure.field = "select"
               /\ configure.options =
                     IF configure.secretStoreType = "ClusterSecretStore"
                     THEN kubeClient.cluster.names
                     ELSE kubeClient.namespaced[configure.namespace].names
          ELSE configure.field = "text" /\ configure.options = << >>
    /\ configure.err # "" => configure.err = "user aborted"

\* C18 witness: with a lister whose listings fail, the configuration of a
\* SecretStore went through free text to its end.
C18_Witness ==
    /\ ~kubeClient.nil /\ kubeClient.cluster.err
    /\ configure.secretStoreType = "SecretStore"
    /\ kubeClient.namespaced[configure.namespace] = Answer(TRUE, NamespacedStores)
    /\ configure.field = "text"
    /\ configure.step = "returned" /\ configure.err = ""
    /\ configure.values.secret_store_name = "my-cluster-store"

-----------------------------------------------------------------------------
\* Properties of AutoCompleteService (checked under SpecSuggest)

\* C19: with a nil lister GetSuggestions returns an empty list and no error
\* for every resource type, namespace and query, never dereferences the lister,
\* and leaves the cache as it is.
C19_NilLister ==
    /\ [](kubeClient.nil /\ suggest.called =>
             /\ suggest.items = << >>
             /\ suggest.err = ""
             /\ ~suggest.panic)
    /\ [][kubeClient.nil => cache' = cache]_vars

\* C19 witness: a service without lister has been asked for the secret stores
\* of a namespace matching a query.
C19_Witness ==
    /\ kubeClient.nil /\ suggest.called
    /\ suggest.resourceType = "secretstore" /\ suggest.query = "VAULT"
    /\ suggest.items = << >> /\ cache = << >>

-----------------------------------------------------------------------------
\* Properties of the plugin menu (checked under SpecMenu)

\* C20: called while the plugin registry is nil, runInteractivePluginMenu
\* returns the error 'plugin registry not initialized' at once: it does not
\* panic, shows no menu and leaves the configured instances alone.
C20_NilRegistryError ==
    pluginRegistry.nil /\ menu.state # "idle" =>
        /\ menu.state = "returned"
        /\ menu.err = "plugin registry not initialized"
        /\ menu.options = << >>

-----------------------------------------------------------------------------
\* Properties of generatePluginFiles and GenerateFluxStructure (checked under
\* SpecFlux)

\* the calls made on plugins so far, and the instance a call is for
PluginCalls == SelectSeq(flux.events, LAMBDA e : e.i > 0)
Instance(e) == config.Plugins[e.i]

\* C21: generatePluginFiles takes the instances in list order and, for each,
\* looks the plugin up, then calls Validate, then GenerateFile; GenerateFile is
\* never called for an instance whose plugin is not registered or whose values
\* Validate rejects, and nothing is called after a call that failed.
C21_LookupValidateGenerateInOrder ==
    LET ev == PluginCalls
    IN /\ Len(ev) > 0 => ev[1].op = "Get" /\ ev[1].i = 1
       /\ \A k \in 1..(Len(ev) - 1) :
             /\ ev[k].ok
             /\ \/ ev[k + 1].i = ev[k].i
                   /\ <<ev[k].op, ev[k + 1].op>> \in
                         {<<"Get", "Validate">>, <<"Validate", "GenerateFile">>}
                \/ ev[k + 1].i = ev[k].i + 1
                   /\ ev[k].op = "GenerateFile" /\ ev[k + 1].op = "Get"
       /\ \A k \in 1..Len(ev) :
             /\ ev[k].op = "Get" => (ev[k].ok <=> Exists(plugins, Instance(ev[k]).PluginName))
             /\ ev[k].op = "GenerateFile" =>
                   /\ Exists(plugins, Instance(ev[k]).PluginName)
                   /\ PluginValidate(Get(plugins, Instance(ev[k]).PluginName).plugin,
                                     Instance(ev[k]).Values).ok

\* a run that generated its first instance and stopped at the second, whose
\* values Validate rejects
C21_Witness ==
    /\ flux.pc = "returned" /\ ~flux.err.ok
    /\ Len(PluginCalls) = 5
    /\ PluginCalls[3] = [op |-> "GenerateFile", i |-> 1, ok |-> TRUE]
    /\ PluginCalls[5] = [op |-> "Validate", i |-> 2, ok |-> FALSE]

\* the entries an instance stands for in the resource list: the three files of
\* an imageupdate instance, the file of its target secret for another one
EntriesOf(instance) ==
    IF instance.PluginName = "imageupdate"
    THEN << <<"image-repository.yaml">>, <<"image-policy.yaml">>,
            <<"image-update-automation.yaml">> >>
    ELSE << <<"dependencies", "/", "external-secret-">>
            \o instance.Values["target_secret_name"].v \o <<".yaml">> >>

RECURSIVE EntriesFrom(_, _)
EntriesFrom(instances, i) ==
    IF i > Len(instances) THEN << >>
    ELSE EntriesOf(instances[i]) \o EntriesFrom(instances, i + 1)

\* generateKustomization has been called
Rendered == \E k \in 1..Len(flux.events) : flux.events[k].op = "generateKustomization"

\* the instances whose files have been generated
GeneratedInstances == {e.i : e \in {PluginCalls[k] : k \in {j \in 1..Len(PluginCalls) :
                 PluginCalls[j].op = "GenerateFile" /\ PluginCalls[j].ok}}}

\* C22: the PluginFiles list handed to the Kustomization template, and left by
\* a successful run, holds in instance order three entries (image-repository.yaml,
\* image-policy.yaml, image-update-automation.yaml) for each imageupdate instance
\* and one entry for every other instance; kustomization.yaml is rendered only
\* after the files of every instance have been generated.
C22_PluginFilesPerInstance ==
    /\ (flux.pc = "kustomization" \/ (flux.pc = "returned" /\ flux.err.ok)) =>
          config.PluginFiles = EntriesFrom(config.Plugins, 1)
    /\ Rendered => GeneratedInstances = 1..Len(config.Plugins)
    /\ Rendered => flux.events[Len(flux.events)].op = "generateKustomization"

\* a successful run over an ExternalSecret instance followed by an imageupdate
\* instance: four entries
C22_Witness ==
    /\ flux.pc = "returned" /\ flux.err.ok /\ Rendered
    /\ Len(config.Plugins) = 2
    /\ config.Plugins[1].PluginName = "externalsecret"
    /\ config.Plugins[2].PluginName = "imageupdate"
    /\ Len(config.PluginFiles) = 4

\* the files an instance writes, and their contents, when it is generated on
\* its own into the directories GenerateFluxStructure made
Alone(i) ==
    PluginGenerateFile(Get(plugins, config.Plugins[i].PluginName).plugin,
                       config.Plugins[i].Values, config.AppName, config.Namespace,
                       CHOOSE order \in FileOrders : TRUE,
                       [dirs |-> {config.AppName, Join(config.AppName, <<"dependencies">>)},
                        files |-> << >>]).fs.files

\* instances i and j write a file of the same path
Collide(i, j) == DOMAIN Alone(i) \cap DOMAIN Alone(j) # {}

\* C23: when two instances render the same output path, the later GenerateFile
\* call succeeds like the earlier one, without an error for the collision, and
\* the file holds what the later instance renders (last write wins).
C23_LastWriteWins ==
    /\ \A k \in 1..Len(PluginCalls) :
          (/\ PluginCalls[k].op = "GenerateFile"
           /\ \E i \in GeneratedInstances : i < PluginCalls[k].i /\ Collide(i, PluginCalls[k].i))
          => PluginCalls[k].ok
    /\ \A j \in GeneratedInstances : \A q \in DOMAIN Alone(j) :
          (\A k \in GeneratedInstances : k > j => q \notin DOMAIN Alone(k))
          => fs.files[q] = Alone(j)[q]

\* two ExternalSecret instances of the same target secret, both generated: the
\* file describes the second one
C23_Witness ==
    /\ flux.pc = "returned" /\ flux.err.ok
    /\ GeneratedInstances = {1, 2}
    /\ Collide(1, 2)
    /\ config.Plugins[1].Values["name"] # config.Plugins[2].Values["name"]
    /\ \A q \in DOMAIN Alone(2) :
          Carries(fs.files[q], "  name: ", config.Plugins[2].Values["name"].v)

\* a call on a plugin instance failed
PluginFailed == \E k \in 1..Len(PluginCalls) : ~PluginCalls[k].ok

\* kustomization.yaml is as it was before the run
KustomizationUntouched ==
    LET q == Join(config.AppName, <<"kustomization.yaml">>)
    IN /\ q \in DOMAIN fs.files <=> q \in DOMAIN fsFirst.files
       /\ q \in DOMAIN fs.files => fs.files[q] = fsFirst.files[q]

\* C27: when the lookup, the validation or the generation of an instance fails,
\* GenerateFluxStructure returns an error, config.PluginFiles is not updated and
\* kustomization.yaml is not written; a run that returns no error has validated
\* and generated every configured instance.
C27_FailureIsReported ==
    /\ PluginFailed =>
          /\ flux.pc = "returned" /\ ~flux.err.ok
          /\ config.PluginFiles = << >>
          /\ ~Rendered /\ KustomizationUntouched
    /\ (flux.pc = "returned" /\ flux.err.ok) =>
          /\ GeneratedInstances = 1..Len(config.Plugins)
          /\ \A i \in 1..Len(config.Plugins) :
                /\ Exists(plugins, config.Plugins[i].PluginName)
                /\ PluginValidate(Get(plugins, config.Plugins[i].PluginName).plugin,
                                  config.Plugins[i].Values).ok

\* a run over an earlier run's tree that generated its first instance and
\* failed on the second
C27_Witness ==
    /\ PluginFailed /\ flux.pc = "returned"
    /\ GeneratedInstances = {1}
    /\ flux.pluginFiles # << >>
    /\ Join(config.AppName, <<"kustomization.yaml">>) \in DOMAIN fs.files

-----------------------------------------------------------------------------
\* Properties of ImageUpdatePlugin.CollectCustomConfig (checked under
\* SpecCollect)

\* the policies the values map holds after the call
StoredPolicies == UnmarshalPolicies(values["image_policies"].v)

\* C24: after a CollectCustomConfig that returns no error, image_policies is a
\* JSON array without any policy of type "timestamp": a Timestamp choice is
\* stored as a numerical policy with the fixed pattern, extract "$ts" and order
\* "asc", and a semver choice is stored with the range the user chose, which
\* is not empty.
C24_TimestampStoredAsNumerical ==
    (collect.called /\ collect.err = "") =>
       /\ IsStringField(values, "image_policies")
       /\ CanUnmarshal(values["image_policies"].v)
       /\ Len(StoredPolicies) = 1
       /\ \A i \in 1..Len(StoredPolicies) :
             /\ StoredPolicies[i].PolicyType # <<"timestamp">>
             /\ collect.answers.policy.policyType = <<"timestamp">> =>
                   /\ StoredPolicies[i].PolicyType = <<"numerical">>
                   /\ StoredPolicies[i].Pattern = <<"^main-[a-f0-9]+-(?P<ts>[0-9]+)">>
                   /\ StoredPolicies[i].Extract = <<"$ts">>
                   /\ StoredPolicies[i].Order = <<"asc">>
             /\ collect.answers.policy.policyType = <<"semver">> =>
                   /\ StoredPolicies[i].PolicyType = <<"semver">>
                   /\ StoredPolicies[i].Range = collect.answers.range.Range
                   /\ StoredPolicies[i].Range # << >>

\* a Timestamp choice made over a map that held a timestamp policy before
C24_Witness ==
    /\ collect.called /\ collect.err = ""
    /\ collect.answers.policy.policyType = <<"timestamp">>
    /\ "image_policies" \in DOMAIN collect.before
    /\ UnmarshalPolicies(collect.before["image_policies"].v)[1].PolicyType = <<"timestamp">>
    /\ StoredPolicies[1].PolicyType = <<"numerical">>

-----------------------------------------------------------------------------
\* Properties of GenerateFile on the values maps of SpecDecode

\* the field is a string that is no JSON array of records
NotAnArray(key) == IsStringField(values, key) /\ ~IsJsonArray(values[key].v)

\* the field is a string json.Unmarshal cannot decode into the slice
Undecodable(key) == IsStringField(values, key) /\ ~CanUnmarshal(values[key].v)

\* a GenerateFile call of the ImageUpdatePlugin
ImageUpdateCall == plugin.impl = "imageupdate" /\ calls' = calls + 1

\* C25 as stated: a call of ImageUpdatePlugin.GenerateFile on a map whose
\* image_repositories or image_policies is a string that is not a JSON array of
\* records returns an error and leaves the output tree as it was.
C25_Step ==
    ImageUpdateCall /\ (NotAnArray("image_repositories") \/ NotAnArray("image_policies"))
    => ~genResult'.ok /\ fs' = fs
C25_AmendedStep ==
    /\ ImageUpdateCall /\ (Undecodable("image_repositories") \/ Undecodable("image_policies"))
       => /\ ~genResult'.ok /\ genResult'.kind = "error"
          /\ genResult'.What = IF Undecodable("image_repositories")
                                THEN "failed to parse image repositories"
                                ELSE "failed to parse image policies"
          /\ fs' = fs
    /\ ImageUpdateCall /\ IsStringField(values, "image_repositories")
       /\ values["image_repositories"].v = <<"null">> /\ ~Undecodable("image_policies")
       => genResult'.ok
DecodeFailed(err) ==
    err.What \in {"failed to parse image repositories", "failed to parse image policies"}

\* C26: when ImageUpdatePlugin.Validate accepts a values map, the JSON decoding
\* of GenerateFile on the same map does not fail; a field that is absent or
\* holds no string is accepted by Validate and is not decoded at all.
C26_Step ==
    /\ ImageUpdateCall /\ ImageUpdateValidate(variables, values).ok => ~DecodeFailed(genResult')
    /\ ImageUpdateCall /\ ~IsStringField(values, "image_repositories")
                       /\ ~IsStringField(values, "image_policies")
       => ImageUpdateValidate(variables, values).ok /\ genResult'.ok
C26_ValidatedMapsDecode == [][C26_Step]_vars

\* a validated map without repositories and with policies that are no string,
\* from which the files were generated
C26_Witness ==
    /\ result = Ok /\ calls > 0 /\ plugin.impl = "imageupdate" /\ genResult.ok
    /\ "image_repositories" \notin DOMAIN values
    /\ "image_policies" \in DOMAIN values /\ values["image_policies"].t = "bool"

\* the file of the call that carries the namespace
NamespacedFile ==
    IF plugin.impl = "imageupdate" THEN Join(AppDir, <<"image-update-automation.yaml">>)
    ELSE OutputPath

\* C29: a GenerateFile call, of a BasePlugin or of the ImageUpdatePlugin, leaves
\* the caller's values map as it was, and what it renders for the key Namespace
\* is the namespace parameter, whatever "Namespace" entry the map holds.
C29_Step ==
    calls' = calls + 1 =>
       /\ values' = values
       /\ genResult'.ok =>
             /\ Carries(fs'.files[NamespacedFile], "  namespace: ", namespace)
             /\ \A k \in DOMAIN values :
                   k = "Namespace" /\ values[k].v # namespace =>
                      ~Carries(fs'.files[NamespacedFile], "  namespace: ", values[k].v)
C29_ContextIsACopy == [][C29_Step]_vars

\* a file generated, by either kind of plugin, from a map with a Namespace
\* entry that differs from the parameter
C29_Witness ==
    /\ calls > 0 /\ genResult.ok
    /\ "Namespace" \in DOMAIN values /\ values["Namespace"].v # namespace
    /\ Carries(fs.files[NamespacedFile], "  namespace: ", namespace)

-----------------------------------------------------------------------------
\* Properties of the list of configured instances (checked under SpecMenu)

\* instances' is instances with one PluginConfig of the named plugin at its end
AppendedOne(before, after, pluginName) ==
    /\ Len(after) = Len(before) + 1
    /\ SubSeq(after, 1, Len(before)) = before
    /\ after[Len(after)].PluginName = pluginName

\* C28: the list of configured instances only grows at its end. In the menu, an
\* 'add' choice that succeeds appends one PluginConfig of the chosen plugin and
\* the menu comes up again; every other step leaves the list as it was; a
\* configurePluginInstance that fails, as for an unknown name with the error
\* "plugin '<name>' not found", leaves it unchanged; and the loop returns only
\* when 'done' was chosen or with an error.
C28_Step ==
    /\ \/ pluginInstances' = pluginInstances
       \/ /\ Len(pluginInstances') = Len(pluginInstances) + 1
          /\ SubSeq(pluginInstances', 1, Len(pluginInstances)) = pluginInstances
    /\ menu.state = "form" =>
          /\ menu'.state \in {"form", "returned"}
          /\ menu'.state = "form" =>
                /\ menu'.choice \in {AddOption(n) : n \in DOMAIN pluginRegistry.plugins}
                /\ AppendedOne(pluginInstances, pluginInstances', menu'.choice[2])
          /\ menu'.state = "returned" =>
                /\ pluginInstances' = pluginInstances
                /\ menu'.err = "" <=> menu'.choice = DoneOption
    /\ menu'.state = "called" =>
          /\ menu'.err # "" => pluginInstances' = pluginInstances
          /\ menu'.err = "" => AppendedOne(pluginInstances, pluginInstances', menu'.choice[1])
          /\ ~Get(pluginRegistry.plugins, menu'.choice[1]).exists =>
                menu'.err = "plugin '" \o menu'.choice[1] \o "' not found"
C28_InstancesAppendOnly == [][C28_Step]_vars

\* a second instance of a plugin was added behind the first, and then a call
\* for an unknown plugin failed and left both in place
C28_Witness ==
    /\ Len(pluginInstances) = 2
    /\ pluginInstances[1].PluginName = pluginInstances[2].PluginName
    /\ menu.state = "called"
    /\ menu.err = "plugin 'non-existent-plugin' not found"

-----------------------------------------------------------------------------
\* Properties of the suggestion cache (checked under SpecSuggest)

\* the key of the call just made, and whether its entry was fresh before it
CalledKey == CacheKey(suggest'.resourceType, suggest'.namespace)
ServedFresh == CalledKey \in DOMAIN cache /\ now - cache[CalledKey].timestamp < CacheTTL

\* C30: on a service with a lister, every cache entry holds the whole list the
\* lister last returned for its key, so a call that succeeds returns the
\* case-insensitive substring filter of that list for its query (the list
\* itself for the empty query), whatever was asked before; a call that fails
\* returns the error and leaves the cache as it was; an entry younger than 30
\* seconds is served without a call of the lister; and a call on a cleared cache
\* asks the lister.
C30_Step ==
    ~kubeClient.nil =>
       /\ \A cacheKey \in DOMAIN cache' :
             /\ cacheKey \in DOMAIN suggest'.fetched
             /\ cache'[cacheKey].items = suggest'.fetched[cacheKey]
       /\ CallGetSuggestions =>
             /\ suggest'.err = "" =>
                   /\ CalledKey \in DOMAIN cache'
                   /\ suggest'.items =
                         filterSuggestions(suggest'.fetched[CalledKey], suggest'.query)
                   /\ suggest'.query = "" => suggest'.items = suggest'.fetched[CalledKey]
             /\ suggest'.err # "" => cache' = cache /\ suggest'.items = << >>
             /\ ServedFresh => ~suggest'.listed /\ cache' = cache /\ suggest'.err = ""
             /\ ~ServedFresh /\ Listed(suggest'.resourceType) => suggest'.listed
             /\ cache = << >> /\ suggest'.err = "" =>
                   /\ suggest'.listed
                   /\ cache'[CalledKey] =
                         cacheEntry(fetchResourceItems(kubeClient, suggest'.resourceType,
                                                       suggest'.namespace).items, now)
C30_CacheHoldsTheFetchedList == [][C30_Step]_vars

\* a query was answered from a fresh entry, with a store that the cluster has
\* lost since the entry was fetched, after another query on the same key
C30_Witness ==
    /\ ~kubeClient.nil /\ suggest.called /\ ~suggest.listed /\ suggest.err = ""
    /\ suggest.resourceType = ResourceTypeSecretStore /\ suggest.query = "VAULT"
    /\ suggest.items = <<"local-vault">>
    /\ GetSecretStores(kubeClient, suggest.namespace).names = << >>
    /\ now = 15

====
